---------------------------- MODULE Spec2Model ----------------------------
(***************************************************************************)
(* specguard: verification of spec-file step lists against step markers   *)
(* in implementation files (src/src/index.ts and the core module whose    *)
(* text is carried in src/tests/e2e/e2e-testing.sh, lines 933-1298).      *)
(*                                                                         *)
(* A string is a sequence of symbols.  A symbol is a TLA+ string standing *)
(* for one character (" ", "/", "#", "(", ...) or for a run of characters *)
(* that no operation of the program splits ("unit", "specguard", ".md").   *)
(* A file is the sequence of its lines (content.split('\n')).  A JS       *)
(* object is a record; a key the code leaves out is left out here too.    *)
(***************************************************************************)
EXTENDS Integers, Sequences, FiniteSets, TLC

VARIABLES
    argv,        \* process.argv.slice(2)
    tree,        \* the file tree: path |-> lines of the file
    pc,          \* position of main(): "start", "scan", "summary", "exited"; "idle"
    options,     \* CliOptions once parsed
    searchDir,   \* resolvePath(options.searchDir)
    pending,     \* spec files the glob scan has not yielded yet
    allResults,  \* TestFileResult[] of the current run
    summary,     \* TestSummary once computed
    exitCode,    \* process exit code once exited, -1 before
    verifications, \* the local verification behind each entry of allResults
    warnings,    \* the spec files a "No scenarios defined, skipping" warning named
    run,         \* 1 for the first run over the tree, 2 for the second
    prev,        \* the summary of the first run, kept to compare a second run with
    inp,         \* argument of a direct call of a pure function
    out          \* its result

vars == <<argv, tree, pc, options, searchDir, pending, allResults, verifications,
          warnings, summary, exitCode, run, prev, inp, out>>

----------------------------------------------------------------------------
(* Bounds of the model *)

\* longest expected / actual step list drawn for a direct call of verifySteps
MaxSteps == 4

----------------------------------------------------------------------------
(* Strings *)

\* the symbol of a run of three backquotes, the fence of a code block
Fence == "<fence>"

\* the value of a key an object does not have
undefined == "undefined"

\* whitespace symbols (String.prototype.trim, \s)
WS == {" ", "\t"}

RECURSIVE trimStart(_)
trimStart(str) ==
    IF str # <<>> /\ Head(str) \in WS THEN trimStart(Tail(str)) ELSE str

RECURSIVE trimEnd(_)
trimEnd(str) ==
    IF str # <<>> /\ str[Len(str)] \in WS
    THEN trimEnd(SubSeq(str, 1, Len(str) - 1))
    ELSE str

\* utils.ts trim: str.trim()
trim(str) == trimEnd(trimStart(str))

\* Array.prototype.map(f) over a sequence
Map(f(_), s) == [i \in 1..Len(s) |-> f(s[i])]

\* str.startsWith(p) at 1-based position i
MatchAt(str, i, p) ==
    /\ i >= 1
    /\ i + Len(p) - 1 <= Len(str)
    /\ SubSeq(str, i, i + Len(p) - 1) = p

Max(S) == CHOOSE x \in S : \A y \in S : y <= x
Min(S) == CHOOSE x \in S : \A y \in S : x <= y

\* first position >= i of str that holds no whitespace (Len(str)+1 if none)
SkipWS(str, i) ==
    Min({j \in i..(Len(str) + 1) : j = Len(str) + 1 \/ str[j] \notin WS})

RECURSIVE Concat(_)
Concat(ss) == IF ss = <<>> THEN <<>> ELSE Head(ss) \o Concat(Tail(ss))

----------------------------------------------------------------------------
(* File system *)

\* process.cwd()
cwd == <<"/", "a">>

\* the file a path names: a relative path is taken from the working directory
absolute(path) == IF path # <<>> /\ Head(path) = "/" THEN path ELSE cwd \o <<"/">> \o path

\* utils.ts fileExists
fileExists(path) == path # <<>> /\ absolute(path) \in DOMAIN tree

\* utils.ts readFile, followed by content.split('\n')
readLines(path) == tree[absolute(path)]

----------------------------------------------------------------------------
(* Step extractor *)

\* /^\s*(#|\/\/)\s*step\("(.+)"\)/ : the capture group 2 of the match, as a
\* one-element set, or {} when the line does not match.  (.+) is greedy: it
\* ends at the last  ")  of the line.
stepRegex(line) ==
    LET i1 == SkipWS(line, 1)
        l1 == IF MatchAt(line, i1, <<"#">>) THEN 1
              ELSE IF MatchAt(line, i1, <<"/", "/">>) THEN 2
              ELSE 0
        i2 == SkipWS(line, i1 + l1)
        st == i2 + 3
        ends == {j \in (st + 1)..(Len(line) - 1) : MatchAt(line, j, <<"\"", ")">>)}
    IN  IF l1 > 0 /\ MatchAt(line, i2, <<"step", "(", "\"">>) /\ ends # {}
        THEN {SubSeq(line, st, Max(ends) - 1)}
        ELSE {}

RECURSIVE stepsUntilGap(_)
\* the steps of the marker lines up to the first line that is not a marker
stepsUntilGap(lines) ==
    IF lines = <<>> \/ stepRegex(Head(lines)) = {} THEN <<>>
    ELSE <<CHOOSE x \in stepRegex(Head(lines)) : TRUE>> \o stepsUntilGap(Tail(lines))

RECURSIVE stepsOfLines(_)
\* the loop "for (const line of lines)" of findStepsInTest
stepsOfLines(lines) ==
    IF lines = <<>> THEN <<>>
    ELSE LET m == stepRegex(Head(lines))
         IN  (IF m = {} THEN <<>> ELSE <<CHOOSE x \in m : TRUE>>)
             \o stepsOfLines(Tail(lines))

\* the steps of the markers up to the end of the first describe block
findStepsInFirstDescribe(filePath) ==
    IF ~fileExists(filePath) THEN <<>>
    ELSE LET lines == readLines(filePath)
             closes == {i \in 1..Len(lines) : MatchAt(lines[i], 1, <<"}", ")">>)}
         IN  IF closes = {} THEN stepsOfLines(lines)
             ELSE stepsOfLines(SubSeq(lines, 1, Min(closes)))

\* findStepsInTest(filePath)
findStepsInTest(filePath) ==
    IF ~fileExists(filePath) THEN <<>> ELSE stepsOfLines(readLines(filePath))

----------------------------------------------------------------------------
(* Verifier *)

normalizeStepsRaw(steps) == steps

\* "Normalize steps (trim whitespace)": steps.map(trim)
normalizeSteps(steps) == Map(trim, steps)

countMismatchWholeLists(expectedSteps, actualSteps) ==
    [passed |-> FALSE,
     reason |-> "step-count-mismatch",
     expectedSteps |-> expectedSteps,
     actualSteps |-> actualSteps,
     missingSteps |-> IF Len(actualSteps) < Len(expectedSteps)
                      THEN normalizeSteps(expectedSteps) ELSE <<>>,
     extraSteps |-> IF Len(expectedSteps) < Len(actualSteps)
                    THEN normalizeSteps(actualSteps) ELSE <<>>]

\* verifySteps, the branch taken when the step counts differ
countMismatch(expectedSteps, actualSteps) ==
    LET normalizedExpected == normalizeSteps(expectedSteps)
        normalizedActual == normalizeSteps(actualSteps)
        ne == Len(normalizedExpected)
        na == Len(normalizedActual)
    IN  [passed |-> FALSE,
         reason |-> "step-count-mismatch",
         expectedSteps |-> expectedSteps,
         actualSteps |-> actualSteps,
         missingSteps |-> IF na < ne THEN SubSeq(normalizedExpected, na + 1, ne)
                          ELSE <<>>,
         extraSteps |-> IF ne < na THEN SubSeq(normalizedActual, ne + 1, na)
                        ELSE <<>>]

RECURSIVE mismatchesFrom(_, _, _)
mismatchesFromFirstOnly(normalizedExpected, normalizedActual, i) ==
    IF i > Len(normalizedExpected) THEN <<>>
    ELSE IF normalizedExpected[i] # normalizedActual[i]
         THEN <<[expected |-> normalizedExpected[i],
                 actual |-> normalizedActual[i],
                 index |-> i - 1]>>
         ELSE mismatchesFrom(normalizedExpected, normalizedActual, i + 1)

\* verifySteps, the elementwise loop: the mismatchedSteps array over indices
\* i..Len (1-based here; the index field keeps the code's 0-based index)
mismatchesFrom(normalizedExpected, normalizedActual, i) ==
    IF i > Len(normalizedExpected) THEN <<>>
    ELSE (IF normalizedExpected[i] # normalizedActual[i]
          THEN <<[expected |-> normalizedExpected[i],
                  actual |-> normalizedActual[i],
                  index |-> i - 1]>>
          ELSE <<>>)
         \o mismatchesFrom(normalizedExpected, normalizedActual, i + 1)

\* verifySteps(testFile, expectedSteps)
verifySteps(testFile, expectedSteps) ==
    IF ~fileExists(testFile)
    THEN [passed |-> FALSE,
          reason |-> "missing-file",
          expectedSteps |-> expectedSteps,
          actualSteps |-> <<>>,
          missingSteps |-> expectedSteps]
    ELSE LET actualSteps == findStepsInTest(testFile)
             normalizedExpected == normalizeSteps(expectedSteps)
             normalizedActual == normalizeSteps(actualSteps)
             mismatchedSteps == mismatchesFrom(normalizedExpected, normalizedActual, 1)
         IN  IF Len(normalizedExpected) # Len(normalizedActual)
             THEN countMismatch(expectedSteps, actualSteps)
             ELSE IF Len(mismatchedSteps) > 0
             THEN [passed |-> FALSE,
                   reason |-> "step-mismatch",
                   expectedSteps |-> expectedSteps,
                   actualSteps |-> actualSteps,
                   mismatchedSteps |-> mismatchedSteps]
             ELSE [passed |-> TRUE,
                   expectedSteps |-> expectedSteps,
                   actualSteps |-> actualSteps]

\* r.key of a JS object, undefined when the object has no such key
Get(r, key) == IF key \in DOMAIN r THEN r[key] ELSE undefined

----------------------------------------------------------------------------
(* Scenario parser *)

RECURSIVE split(_, _)
\* str.split(sep) for a one-symbol separator
split(str, sep) ==
    LET hits == {i \in 1..Len(str) : str[i] = sep}
    IN  IF hits = {} THEN <<str>>
        ELSE <<SubSeq(str, 1, Min(hits) - 1)>>
             \o split(SubSeq(str, Min(hits) + 1, Len(str)), sep)

\* Array.prototype.filter(Boolean) over strings: drops the empty ones
filterBoolean(ss) == SelectSeq(ss, LAMBDA x : x # <<>>)

\* line.match(/^##\s+(.+)/): "##", then whitespace, then at least one more
\* character (which the backtracking leaves to the group)
h2Match(line) ==
    /\ MatchAt(line, 1, <<"#", "#">>)
    /\ Len(line) >= 4
    /\ line[3] \in WS

\* h2Match[1]?.trim() || ''
h2Name(line) == trim(SubSeq(line, 3, Len(line)))

\* line.match(/^levels:\s*(.*)/)
levelsMatch(line) == MatchAt(line, 1, <<"levels:">>)

\* trim(levelsMatch[1]).split(',').map(trim).filter(Boolean)
levelsOf(line) ==
    LET levelsStr == trim(SubSeq(line, SkipWS(line, 2), Len(line)))
    IN  filterBoolean(Map(trim, split(levelsStr, ",")))

\* the state of the loop of extractScenarios before the first line
parseStart ==
    [scenarios |-> <<>>, open |-> FALSE, current |-> [name |-> <<>>, levels |-> <<>>],
     inCodeblock |-> FALSE, currentSteps |-> <<>>]

\* the scenario in progress pushed whenever one is open
flushAlways(st) ==
    IF st.open
    THEN Append(st.scenarios,
                [name |-> st.current.name, levels |-> st.current.levels,
                 steps |-> st.currentSteps])
    ELSE st.scenarios

\* "Save previous scenario if it exists": pushed only with at least one step
flush(st) ==
    IF st.open /\ Len(st.currentSteps) > 0
    THEN Append(st.scenarios,
                [name |-> st.current.name, levels |-> st.current.levels,
                 steps |-> st.currentSteps])
    ELSE st.scenarios

\* one iteration of the loop of extractScenarios
parseLine(st, line) ==
    IF h2Match(line)
    THEN [scenarios |-> flush(st), open |-> TRUE,
          current |-> [name |-> h2Name(line), levels |-> <<>>],
          inCodeblock |-> FALSE, currentSteps |-> <<>>]
    ELSE IF st.open /\ levelsMatch(line)
    THEN [st EXCEPT !.current.levels = levelsOf(line)]
    ELSE IF MatchAt(line, 1, <<Fence, "specguard">>)
    THEN [st EXCEPT !.inCodeblock = TRUE]
    ELSE IF MatchAt(line, 1, <<Fence>>) /\ st.inCodeblock
    THEN [st EXCEPT !.inCodeblock = FALSE]
    ELSE IF st.inCodeblock /\ st.open /\ trim(line) # <<>>
    THEN [st EXCEPT !.currentSteps = Append(@, line)]
    ELSE st

RECURSIVE parseLines(_, _)
parseLines(st, lines) ==
    IF lines = <<>> THEN st ELSE parseLines(parseLine(st, Head(lines)), Tail(lines))

\* extractScenarios(filePath)
extractScenarios(filePath) == flush(parseLines(parseStart, readLines(filePath)))

----------------------------------------------------------------------------
(* Paths *)

RECURSIVE join(_, _)
\* parts.join(sep)
join(parts, sep) ==
    IF parts = <<>> THEN <<>>
    ELSE IF Len(parts) = 1 THEN parts[1]
    ELSE parts[1] \o <<sep>> \o join(Tail(parts), sep)

RECURSIVE collapseSlashes(_)
\* str.replace(/\/+/g, '/')
collapseSlashes(str) ==
    IF Len(str) < 2 THEN str
    ELSE IF str[1] = "/" /\ str[2] = "/" THEN collapseSlashes(Tail(str))
    ELSE <<str[1]>> \o collapseSlashes(Tail(str))

\* utils.ts joinPath(...parts)
joinPath(parts) == collapseSlashes(join(filterBoolean(parts), "/"))

\* utils.ts dirname(path)
dirname(path) ==
    LET parts == split(path, "/")
        joined == join(SubSeq(parts, 1, Len(parts) - 1), "/")
    IN  IF joined = <<>> THEN <<".">> ELSE joined

\* utils.ts resolvePath(path)
resolvePath(path) ==
    IF MatchAt(path, 1, <<"/">>) THEN path
    ELSE IF MatchAt(path, 1, <<".", "/">>)
    THEN joinPath(<<cwd, SubSeq(path, 3, Len(path))>>)
    ELSE joinPath(<<cwd, path>>)

RECURSIVE normalizeSegments(_, _, _)
\* the segment loop of path.normalize: "" and "." are dropped, ".." removes the
\* segment before it (or is kept, above the start of a relative path)
normalizeSegments(segs, acc, allowAboveRoot) ==
    IF segs = <<>> THEN acc
    ELSE LET seg == Head(segs)
             acc2 == IF seg = <<>> \/ seg = <<".">> THEN acc
                     ELSE IF seg = <<"..">>
                     THEN IF acc # <<>> /\ acc[Len(acc)] # <<"..">>
                          THEN SubSeq(acc, 1, Len(acc) - 1)
                          ELSE IF allowAboveRoot THEN Append(acc, seg) ELSE acc
                     ELSE Append(acc, seg)
         IN  normalizeSegments(Tail(segs), acc2, allowAboveRoot)

\* path.normalize(p) (posix)
normalize(p) ==
    IF p = <<>> THEN <<".">>
    ELSE LET isAbsolute == Head(p) = "/"
             trailingSeparator == p[Len(p)] = "/"
             body == join(normalizeSegments(split(p, "/"), <<>>, ~isAbsolute), "/")
         IN  IF body = <<>>
             THEN IF isAbsolute THEN <<"/">>
                  ELSE IF trailingSeparator THEN <<".", "/">> ELSE <<".">>
             ELSE (IF isAbsolute THEN <<"/">> ELSE <<>>) \o body
                  \o (IF trailingSeparator THEN <<"/">> ELSE <<>>)

\* str.lastIndexOf(p): the last 1-based position of p in str, 0 when there is none
lastIndexOf(str, p) ==
    LET hits == {i \in 1..Len(str) : MatchAt(str, i, p)}
    IN  IF hits = {} THEN 0 ELSE Max(hits)

\* str.replace(/<p>$/, ''): str without p at its end
stripSuffix(str, p) ==
    IF Len(str) >= Len(p) /\ MatchAt(str, Len(str) - Len(p) + 1, p)
    THEN SubSeq(str, 1, Len(str) - Len(p))
    ELSE str

\* new Glob(`**/${folder}/*.md`).scan(dir): the paths, relative to dir, of the
\* files under dir that lie directly in a directory named folder and end in .md
globScan(dir, folder) ==
    LET root == normalize(dir)
        prefix == IF root = <<"/">> THEN root ELSE root \o <<"/">>
        matches(rel) ==
            LET segs == split(rel, "/")
                file == segs[Len(segs)]
            IN  /\ Len(segs) >= 2
                /\ segs[Len(segs) - 1] = folder
                /\ Len(file) >= 2
                /\ file[Len(file)] = ".md"
    IN  {SubSeq(p, Len(prefix) + 1, Len(p)) :
            p \in {q \in DOMAIN tree :
                     /\ MatchAt(q, 1, prefix)
                     /\ matches(SubSeq(q, Len(prefix) + 1, Len(q)))}}

----------------------------------------------------------------------------
(* Orchestrator: processSpecguardFile *)

\* commonExtensions, in the order the code tries them
commonExtensions ==
    << <<".ts">>, <<".test.ts">>, <<".spec.ts">>, <<".js">>, <<".test.js">>,
       <<".spec.js">>, <<".sh">>, <<".py">> >>

\* arr.includes(x)
includes(arr, x) == \E i \in 1..Len(arr) : arr[i] = x

\* a list after appending the members of xs in order
addAllKeepingRepeats(order, xs) == order \o xs

RECURSIVE addAll(_, _)
\* a Set<string> in insertion order, after adding the members of xs in order
addAll(order, xs) ==
    IF xs = <<>> THEN order
    ELSE addAll(IF includes(order, Head(xs)) THEN order ELSE Append(order, Head(xs)),
                Tail(xs))

RECURSIVE collectLevels(_, _)
\* "Collect all unique levels from all scenarios": allLevels in insertion order
collectLevels(scenarios, order) ==
    IF scenarios = <<>> THEN order
    ELSE collectLevels(Tail(scenarios),
                       addAll(order, Map(trim, Head(scenarios).levels)))

\* relPathNoExt of a spec file
relPathNoExt(specguardFile, folder) ==
    LET specFolderPattern == <<"/">> \o folder \o <<"/">>
        lastIndex == lastIndexOf(specguardFile, specFolderPattern)
        relPath == IF lastIndex >= 1
                   THEN SubSeq(specguardFile, lastIndex + Len(specFolderPattern),
                               Len(specguardFile))
                   ELSE <<>>
    IN  stripSuffix(relPath, <<".md">>)

\* the index of the last existing candidate, 0 when no candidate exists
lastExisting(testFileBase, k) ==
    LET found == {j \in k..Len(commonExtensions) :
                     fileExists(testFileBase \o commonExtensions[j])}
    IN  IF found = {} THEN 0 ELSE Max(found)

RECURSIVE firstExisting(_, _)
\* "for (const ext of commonExtensions)" from index k (1-based) on: the index
\* of the extension at which the loop breaks, 0 when it runs to the end
firstExisting(testFileBase, k) ==
    IF k > Len(commonExtensions) THEN 0
    ELSE IF fileExists(testFileBase \o commonExtensions[k]) THEN k
    ELSE firstExisting(testFileBase, k + 1)

\* testFile: the first existing candidate, or the pattern "for error reporting"
resolveTestFile(testFileBase) ==
    LET k == firstExisting(testFileBase, 1)
    IN  IF k = 0 THEN testFileBase \o <<".*">> ELSE testFileBase \o commonExtensions[k]

RECURSIVE stepsOfAll(_, _)
stepsOfAll(scenarios, levelTrimmed) ==
    IF scenarios = <<>> THEN <<>>
    ELSE Head(scenarios).steps \o stepsOfAll(Tail(scenarios), levelTrimmed)

RECURSIVE stepsForLevel(_, _)
\* allStepsForLevel: "Collect all steps from scenarios in this level (in order)"
stepsForLevel(scenarios, levelTrimmed) ==
    IF scenarios = <<>> THEN <<>>
    ELSE (IF includes(Head(scenarios).levels, levelTrimmed)
          THEN Head(scenarios).steps ELSE <<>>)
         \o stepsForLevel(Tail(scenarios), levelTrimmed)

\* a slice that always begins at the first entry
sliceFromFirst(arr, start, end) ==
    SubSeq(arr, 1, IF end - start < Len(arr) THEN end - start ELSE Len(arr))

\* arr.slice(start, end) with 0-based start and end
slice(arr, start, end) ==
    SubSeq(arr, start + 1, IF end < Len(arr) THEN end ELSE Len(arr))

RECURSIVE scenarioCheck(_, _, _, _)
\* the loop "Check if this scenario's steps match" from index i (1-based) on,
\* started with sv = the scenarioVerification built before the loop
scenarioCheck(sv, scenarioExpectedSteps, scenarioActualSteps, i) ==
    IF i > Len(scenarioExpectedSteps) THEN sv
    ELSE LET expected == trim(scenarioExpectedSteps[i])
             hasActual == i <= Len(scenarioActualSteps)
             actual == IF hasActual THEN trim(scenarioActualSteps[i]) ELSE <<>>
             \* expected !== actual; undefined differs from every string
             differs == ~hasActual \/ expected # actual
             \* actual ? ... : ... ; undefined and '' are falsy
             truthy == hasActual /\ actual # <<>>
             sv2 == IF differs
                    THEN [k \in DOMAIN sv \cup {"reason"} |->
                            IF k = "passed" THEN FALSE
                            ELSE IF k = "reason"
                            THEN IF truthy THEN "step-mismatch"
                                 ELSE "step-count-mismatch"
                            ELSE sv[k]]
                    ELSE sv
         IN  scenarioCheck(sv2, scenarioExpectedSteps, scenarioActualSteps, i + 1)

\* the scenarioVerification without the "Handle missing file case" branch
scenarioVerificationUnhandled(scenario, verification, stepIndex) ==
    LET scenarioActualSteps ==
            slice(verification.actualSteps, stepIndex, stepIndex + Len(scenario.steps))
    IN  scenarioCheck([passed |-> TRUE, expectedSteps |-> scenario.steps,
                       actualSteps |-> scenarioActualSteps],
                      scenario.steps, scenarioActualSteps, 1)

\* the scenarioVerification of one contributing scenario
scenarioVerification(scenario, verification, stepIndex) ==
    LET scenarioStepCount == Len(scenario.steps)
        scenarioActualSteps ==
            slice(verification.actualSteps, stepIndex, stepIndex + scenarioStepCount)
        start == [passed |-> TRUE,
                  expectedSteps |-> scenario.steps,
                  actualSteps |-> scenarioActualSteps]
        checked == scenarioCheck(start, scenario.steps, scenarioActualSteps, 1)
    IN  IF Get(verification, "reason") = "missing-file"
        THEN [passed |-> FALSE,
              reason |-> "missing-file",
              expectedSteps |-> scenario.steps,
              actualSteps |-> scenarioActualSteps,
              missingSteps |-> scenario.steps]
        ELSE checked

RECURSIVE scenarioResultsFrom(_, _, _, _)
\* scenarioResults: one entry per scenario of the level, stepIndex running
scenarioResultsFrom(scenarios, levelTrimmed, verification, stepIndex) ==
    IF scenarios = <<>> THEN <<>>
    ELSE IF includes(Head(scenarios).levels, levelTrimmed)
    THEN <<[scenarioName |-> Head(scenarios).name,
            stepVerification |->
                scenarioVerification(Head(scenarios), verification, stepIndex)]>>
         \o scenarioResultsFrom(Tail(scenarios), levelTrimmed, verification,
                                stepIndex + Len(Head(scenarios).steps))
    ELSE scenarioResultsFrom(Tail(scenarios), levelTrimmed, verification, stepIndex)

\* one iteration of "Process each level": the TestFileResult, with the local
\* verification kept next to it
processLevel(specguardFile, baseDir, opts, scenarios, level) ==
    LET levelTrimmed == trim(level)
        testFileBase ==
            joinPath(<<baseDir, levelTrimmed,
                       relPathNoExt(specguardFile, opts.specguardFolderName)>>)
        testFile == resolveTestFile(testFileBase)
        allStepsForLevel == stepsForLevel(scenarios, levelTrimmed)
        verification == verifySteps(testFile, allStepsForLevel)
    IN  [result |->
            [testFile |-> testFile,
             specFile |-> specguardFile,
             level |-> levelTrimmed,
             passed |-> verification.passed,
             reason |-> Get(verification, "reason"),
             scenarioResults |->
                scenarioResultsFrom(scenarios, levelTrimmed, verification, 0)],
         verification |-> verification]

\* a spec file without scenarios recorded as a failed result
processSpecguardFileNoSkip(specguardFile, baseDir, opts) ==
    LET scenarios == extractScenarios(specguardFile)
        allLevels == collectLevels(scenarios, <<>>)
        perLevel == [i \in 1..Len(allLevels) |->
                        processLevel(specguardFile, baseDir, opts, scenarios,
                                     allLevels[i])]
    IN  IF Len(scenarios) = 0
        THEN [results |-> <<[testFile |-> <<>>, specFile |-> specguardFile,
                             level |-> <<>>, passed |-> FALSE,
                             reason |-> "missing-file", scenarioResults |-> <<>>]>>,
              verifications |-> <<verifySteps(<<>>, <<>>)>>,
              warnings |-> <<specguardFile>>]
        ELSE [results |-> [i \in 1..Len(allLevels) |-> perLevel[i].result],
              verifications |-> [i \in 1..Len(allLevels) |-> perLevel[i].verification],
              warnings |-> <<>>]

\* processSpecguardFile(specguardFile, baseDir, options): the results returned,
\* the local verification of each, and the warnings logged
processSpecguardFile(specguardFile, baseDir, opts) ==
    LET scenarios == extractScenarios(specguardFile)
        allLevels == collectLevels(scenarios, <<>>)
        perLevel == [i \in 1..Len(allLevels) |->
                        processLevel(specguardFile, baseDir, opts, scenarios,
                                     allLevels[i])]
    IN  IF Len(scenarios) = 0
        THEN [results |-> <<>>, verifications |-> <<>>,
              warnings |-> <<specguardFile>>]
        ELSE [results |-> [i \in 1..Len(allLevels) |-> perLevel[i].result],
              verifications |-> [i \in 1..Len(allLevels) |-> perLevel[i].verification],
              warnings |-> <<>>]

----------------------------------------------------------------------------
(* Orchestrator: main *)

\* the symbols that begin with "-"
DashSymbols == {"--verbose", "-v", "--specguard-folder-name", "--help", "-h", "--bogus"}

\* arg.startsWith('-')
startsWithDash(arg) == arg # <<>> /\ Head(arg) \in DashSymbols

defaultOptions ==
    [verbose |-> FALSE, specguardFolderName |-> <<"specguard">>,
     searchDir |-> <<".">>, help |-> FALSE, error |-> FALSE]

RECURSIVE parseArgsFrom(_, _, _)
\* the loop of parseArgs from index i (1-based); error stands for process.exit(1)
parseArgsFrom(args, i, opts) ==
    IF i > Len(args) \/ opts.error THEN opts
    ELSE LET arg == args[i]
         IN  IF arg \in {<<"--verbose">>, <<"-v">>}
             THEN parseArgsFrom(args, i + 1, [opts EXCEPT !.verbose = TRUE])
             ELSE IF arg = <<"--specguard-folder-name">>
             THEN IF i + 1 > Len(args) \/ args[i + 1] = <<>>
                  THEN [opts EXCEPT !.error = TRUE]
                  ELSE parseArgsFrom(args, i + 2,
                                     [opts EXCEPT !.specguardFolderName = args[i + 1]])
             ELSE IF arg \in {<<"--help">>, <<"-h">>}
             THEN parseArgsFrom(args, i + 1, [opts EXCEPT !.help = TRUE])
             ELSE IF startsWithDash(arg)
             THEN [opts EXCEPT !.error = TRUE]
             ELSE parseArgsFrom(args, i + 1, [opts EXCEPT !.searchDir = arg])

\* parseArgs(args)
parseArgs(args) == parseArgsFrom(args, 1, defaultOptions)

\* number of entries of a sequence that satisfy a test: arr.filter(f).length
count(arr, f(_)) == Len(SelectSeq(arr, f))

\* a summary whose failed count leaves out the results with a missing file
calculateSummaryFailedOnSteps(results) ==
    [totalFiles |-> Len(results),
     passedFiles |-> count(results, LAMBDA r : r.passed),
     failedFiles |-> count(results, LAMBDA r : r.reason \in {"step-count-mismatch",
                                                            "step-mismatch"}),
     missingFiles |-> count(results, LAMBDA r : r.reason = "missing-file"),
     results |-> results]

calculateSummaryFailedAsMissing(results) ==
    [totalFiles |-> Len(results),
     passedFiles |-> count(results, LAMBDA r : r.passed),
     failedFiles |-> count(results, LAMBDA r : ~r.passed),
     missingFiles |-> count(results, LAMBDA r : r.reason # undefined),
     results |-> results]

\* "Calculate summary"
calculateSummary(results) ==
    [totalFiles |-> Len(results),
     passedFiles |-> count(results, LAMBDA r : r.passed),
     failedFiles |-> count(results, LAMBDA r : ~r.passed),
     missingFiles |-> count(results, LAMBDA r : r.reason = "missing-file"),
     results |-> results]

exitCodeOfMissing(s) == IF s.missingFiles > 0 THEN 1 ELSE 0

\* "Exit with error if any failures"
exitCodeOf(s) == IF s.failedFiles > 0 THEN 1 ELSE 0

noSummary == [totalFiles |-> -1]
noCall == [op |-> "none"]

\* main(), up to the start of the scan
Start ==
    /\ pc = "start"
    /\ LET opts == parseArgs(argv)
       IN  /\ options' = opts
           /\ IF opts.error
              THEN pc' = "exited" /\ exitCode' = 1
                   /\ UNCHANGED <<searchDir, pending>>
              ELSE IF opts.help
              THEN pc' = "exited" /\ exitCode' = 0
                   /\ UNCHANGED <<searchDir, pending>>
              ELSE /\ searchDir' = resolvePath(opts.searchDir)
                   /\ pending' = globScan(resolvePath(opts.searchDir),
                                          opts.specguardFolderName)
                   /\ pc' = "scan"
                   /\ UNCHANGED exitCode
    /\ UNCHANGED <<argv, tree, allResults, verifications, warnings, summary, run,
                   prev, inp, out>>

\* one iteration of "for await (const specguardFile of glob.scan(searchDir))";
\* the scan yields the files in an order of its own
ScanNext ==
    /\ pc = "scan"
    /\ \E specguardFile \in pending :
          LET fullPath == normalize(joinPath(<<searchDir, specguardFile>>))
              specguardDir == dirname(fullPath)
              baseDir == stripSuffix(specguardDir,
                                     <<"/">> \o options.specguardFolderName)
              r == processSpecguardFile(fullPath, baseDir, options)
          IN  /\ allResults' = allResults \o r.results
              /\ verifications' = verifications \o r.verifications
              /\ warnings' = warnings \o r.warnings
              /\ pending' = pending \ {specguardFile}
    /\ UNCHANGED <<argv, tree, pc, options, searchDir, summary, exitCode, run, prev,
                   inp, out>>

\* the end of main(): the summary, and the exit code of the process
Finish ==
    /\ pc = "scan"
    /\ pending = {}
    /\ summary' = calculateSummary(allResults)
    /\ exitCode' = exitCodeOf(calculateSummary(allResults))
    /\ pc' = "exited"
    /\ UNCHANGED <<argv, tree, options, searchDir, pending, allResults,
                   verifications, warnings, run, prev, inp, out>>

\* the program is run a second time, with the same arguments, over the same tree
Rerun ==
    /\ pc = "exited"
    /\ run = 1
    /\ summary # noSummary
    /\ run' = 2
    /\ prev' = summary
    /\ pc' = "start"
    /\ allResults' = <<>>
    /\ verifications' = <<>>
    /\ warnings' = <<>>
    /\ summary' = noSummary
    /\ exitCode' = -1
    /\ UNCHANGED <<argv, tree, options, searchDir, pending, inp, out>>

----------------------------------------------------------------------------
(* The file trees and arguments the program is run on *)

\* a scenario heading, a levels line, the fences of a step block, a step marker
H2(name) == <<"#", "#", " ">> \o name
LevelsLine(csv) == <<"levels:", " ">> \o csv
FenceOpen == <<Fence, "specguard">>
FenceClose == <<Fence>>
Marker(leader, text) == leader \o <<" ", "step", "(", "\"">> \o text \o <<"\"", ")">>

\* spec files: one scenario; two scenarios of which one is for both levels; a
\* scenario without steps; three scenarios over two levels
SpecTexts ==
    { << H2(<<"S1">>), <<>>, LevelsLine(<<"unit">>),
         FenceOpen, <<"A">>, <<" ", "B">>, FenceClose >>,
      << H2(<<"S1">>), LevelsLine(<<"unit", ",", " ", "e2e">>),
         FenceOpen, <<"A">>, FenceClose,
         H2(<<"S2">>), LevelsLine(<<"unit">>),
         FenceOpen, <<"B">>, FenceClose >>,
      << H2(<<"S1">>), LevelsLine(<<"unit">>) >>,
      << H2(<<"S1">>), LevelsLine(<<"e2e">>), FenceOpen, <<"B">>, FenceClose,
         H2(<<"S2">>), LevelsLine(<<"unit", ",", "e2e">>),
         FenceOpen, <<"A">>, FenceClose,
         H2(<<"S3">>), LevelsLine(<<"unit">>), FenceOpen, <<"B">>, FenceClose >> }

\* implementation files: markers A, B; marker A alone; markers B, A
ImplAB == << Marker(<<"/", "/">>, <<"A">>), <<"x">>, Marker(<<"#">>, <<"B">>) >>
ImplA == << Marker(<<"/", "/">>, <<"A">>) >>
ImplBA == << Marker(<<"#">>, <<"B">>), Marker(<<"/", "/">>, <<"A", " ">>) >>

\* the names of the spec files and the texts each may hold
Names == {"b", "c"}
OneScenario == << H2(<<"S1">>), <<>>, LevelsLine(<<"unit">>),
                  FenceOpen, <<"A">>, <<" ", "B">>, FenceClose >>
OnlyA == << H2(<<"S1">>), LevelsLine(<<"unit">>), FenceOpen, <<"A">>, FenceClose >>
\* a heading without steps, then a scenario that names its level twice
Mixed == << H2(<<"S0">>), LevelsLine(<<"unit">>),
            H2(<<"S1">>), LevelsLine(<<"unit", ",", " ", "unit">>),
            FenceOpen, <<"A">>, <<"B">>, FenceClose >>
NameTexts(name) == IF name = "b" THEN SpecTexts \cup {Mixed} ELSE {OneScenario, OnlyA}

\* the places an implementation file may be at, <level>/<name><suffix>, and the
\* texts each may hold
Slots == {<<"unit", ".test.ts">>, <<"unit", ".sh">>, <<"unit", ".*">>, <<"e2e", ".sh">>}
SlotTexts(slot) ==
    IF slot = <<"unit", ".test.ts">> THEN {ImplAB, ImplA, ImplBA}
    ELSE IF slot = <<"unit", ".*">> THEN {ImplAB}
    ELSE {ImplBA}

\* the directory that holds the specguard folder: the root, or /a
Bases == {<<>>, <<"/", "a">>}

SpecPath(base, name) == base \o <<"/", "specguard", "/", name, ".md">>
ImplPath(base, slot, name) == base \o <<"/", slot[1], "/", name, slot[2]>>

\* the tree with the spec files specs (name |-> lines) and, for every name, the
\* implementation files of listing (slot |-> lines)
TreeOf(base, specs, listing) ==
    LET specPaths == {SpecPath(base, n) : n \in DOMAIN specs}
        implPaths == {ImplPath(base, sl, n) : sl \in DOMAIN listing, n \in Names}
    IN  [p \in specPaths \cup implPaths |->
            IF p \in specPaths
            THEN specs[CHOOSE n \in DOMAIN specs : p = SpecPath(base, n)]
            ELSE listing[CHOOSE sl \in DOMAIN listing :
                            \E n \in Names : p = ImplPath(base, sl, n)]]

SpecChoices ==
    UNION {{f \in [N -> SpecTexts \cup {OnlyA, Mixed}] : \A n \in N : f[n] \in NameTexts(n)} :
           N \in SUBSET Names}
Listings(slots) ==
    UNION {{f \in [S -> {ImplAB, ImplA, ImplBA}] : \A sl \in S : f[sl] \in SlotTexts(sl)} :
           S \in SUBSET slots}

Trees ==
    {TreeOf(base, specs, listing) :
        base \in Bases, specs \in SpecChoices, listing \in Listings(Slots)}

\* the trees without implementation files
BareTrees ==
    {TreeOf(base, specs, <<>>) : base \in Bases, specs \in SpecChoices}

\* the command lines that search for the folder specguard
ScanArgs == { <<>>, << <<"--verbose">>, <<"/">> >> }

\* the command lines that stop before the scan, or search for another folder
OtherArgs ==
    { << <<"--specguard-folder-name">>, <<"specs">> >>,
      << <<"--help">> >>,
      << <<"--bogus">> >>,
      << <<"--specguard-folder-name">> >> }

----------------------------------------------------------------------------
(* Specification of the program *)

InitRest ==
    /\ pc = "start"
    /\ options = defaultOptions
    /\ searchDir = <<>>
    /\ pending = {}
    /\ allResults = <<>>
    /\ verifications = <<>>
    /\ warnings = <<>>
    /\ summary = noSummary
    /\ exitCode = -1
    /\ run = 1
    /\ prev = noSummary
    /\ inp = noCall
    /\ out = noCall

Init ==
    /\ \/ argv \in ScanArgs /\ tree \in Trees
       \/ argv \in OtherArgs /\ tree \in BareTrees
    /\ InitRest

Next == Start \/ ScanNext \/ Finish

Spec == Init /\ [][Next]_vars

----------------------------------------------------------------------------
(* Specification of two runs over an unchanged tree *)

InitTwice ==
    /\ argv \in ScanArgs
    /\ tree \in {TreeOf(base, specs, listing) :
                    base \in Bases, specs \in SpecChoices,
                    listing \in Listings({<<"unit", ".test.ts">>})}
    /\ InitRest

NextTwice == Next \/ Rerun

SpecTwice == InitTwice /\ [][NextTwice]_vars

----------------------------------------------------------------------------
(* Specification of a run, and a second run after a spec file without
   scenarios has been removed from the tree *)

\* the program is run a second time, with the same arguments, after one of the
\* discovered spec files that hold no scenario has been deleted
RerunWithout ==
    /\ pc = "exited"
    /\ run = 1
    /\ summary # noSummary
    /\ \E f \in DOMAIN tree :
          /\ \E g \in globScan(searchDir, options.specguardFolderName) :
                 f = normalize(joinPath(<<searchDir, g>>))
          /\ extractScenarios(f) = <<>>
          /\ tree' = [p \in DOMAIN tree \ {f} |-> tree[p]]
    /\ run' = 2
    /\ prev' = [exitCode |-> exitCode] @@ summary
    /\ pc' = "start"
    /\ allResults' = <<>>
    /\ verifications' = <<>>
    /\ warnings' = <<>>
    /\ summary' = noSummary
    /\ exitCode' = -1
    /\ UNCHANGED <<argv, options, searchDir, pending, inp, out>>

NextWithout == Next \/ RerunWithout

SpecWithout == InitTwice /\ [][NextWithout]_vars

----------------------------------------------------------------------------
(* Specification of a run, and a second run after an implementation file has
   been rearranged into describe blocks around the same markers *)

\* the lines that open and close a describe block
DescribeOpen(name) == <<"describe(", "\"", name, "\"", ",", " ", "{">>
DescribeClose == <<"}", ")">>

\* the marker lines of a file, in order
MarkersOf(lines) == SelectSeq(lines, LAMBDA line : stepRegex(line) # {})

\* the same markers in one describe block, and in a describe block each
Restructured(lines) ==
    LET markers == MarkersOf(lines)
    IN  { <<DescribeOpen("S1")>> \o markers \o <<DescribeClose>>,
          Concat([i \in 1..Len(markers) |->
                     <<DescribeOpen("S2"), markers[i], DescribeClose>>]) }

\* the program is run a second time, with the same arguments, after one
\* implementation file has been rearranged
RerunRestructured ==
    /\ pc = "exited"
    /\ run = 1
    /\ summary # noSummary
    /\ \E p \in DOMAIN tree :
          /\ p[Len(p)] # ".md"
          /\ \E lines \in Restructured(tree[p]) : tree' = [tree EXCEPT ![p] = lines]
    /\ run' = 2
    /\ prev' = summary
    /\ pc' = "start"
    /\ allResults' = <<>>
    /\ verifications' = <<>>
    /\ warnings' = <<>>
    /\ summary' = noSummary
    /\ exitCode' = -1
    /\ UNCHANGED <<argv, options, searchDir, pending, inp, out>>

NextRestructured == Next \/ RerunRestructured

SpecRestructured == InitTwice /\ [][NextRestructured]_vars

----------------------------------------------------------------------------
(* Specification of a run over a tree with a spec file in a subdirectory of
   the spec folder *)

\* parent/specguard/capabilities/feature2.md with parent = /a, and the place
\* of its implementation file for a level
NestedSpec ==
    <<"/", "a", "/", "specguard", "/", "capabilities", "/", "feature2", ".md">>
NestedImpl(level) ==
    <<"/", "a", "/", level, "/", "capabilities", "/", "feature2", ".sh">>

\* the trees with the nested spec file, with or without a spec file directly in
\* the spec folder, and with or without the implementation files
NestedTrees ==
    { [p \in {NestedSpec} \cup DOMAIN others |->
          IF p = NestedSpec THEN text ELSE others[p]] :
        text \in SpecTexts \cup {OnlyA, Mixed},
        others \in
          { direct @@ unit @@ e2e :
              direct \in {<<>>, SpecPath(<<"/", "a">>, "b") :> OneScenario},
              unit \in {<<>>} \cup {NestedImpl("unit") :> t : t \in {ImplAB, ImplA, ImplBA}},
              e2e \in {<<>>, NestedImpl("e2e") :> ImplBA} } }

InitNested ==
    /\ argv \in ScanArgs
    /\ tree \in NestedTrees
    /\ InitRest

SpecNested == InitNested /\ [][Next]_vars

----------------------------------------------------------------------------
(* Specification of direct calls of verifySteps *)

\* the steps a spec file may expect and a marker may hold
ExpectedPool == {<<" ", "A">>, <<"B">>}
ActualPool == {<<"A", " ">>, <<"B">>}

SeqsUpTo(S, n) == UNION {[1..k -> S] : k \in 0..n}

\* the implementation file of the direct calls
VerifyFile == <<"/", "a", "/", "unit", "/", "b", ".sh">>

InitVerify ==
    /\ argv = <<>>
    /\ \/ tree = <<>>
       \/ \E actual \in SeqsUpTo(ActualPool, MaxSteps) :
             tree = [p \in {VerifyFile} |->
                        [i \in 1..Len(actual) |-> Marker(<<"/", "/">>, actual[i])]]
    /\ pc = "idle"
    /\ options = defaultOptions
    /\ searchDir = <<>>
    /\ pending = {}
    /\ allResults = <<>>
    /\ verifications = <<>>
    /\ warnings = <<>>
    /\ summary = noSummary
    /\ exitCode = -1
    /\ run = 1
    /\ prev = noSummary
    /\ \E expected \in SeqsUpTo(ExpectedPool, MaxSteps) :
          inp = [op |-> "verifySteps", testFile |-> VerifyFile,
                 expectedSteps |-> expected]
    /\ out = noCall

CallVerify ==
    /\ inp.op = "verifySteps"
    /\ out = noCall
    /\ out' = [op |-> "verifySteps",
               result |-> verifySteps(inp.testFile, inp.expectedSteps)]
    /\ UNCHANGED <<argv, tree, pc, options, searchDir, pending, allResults,
                   verifications, warnings, summary, exitCode, run, prev, inp>>

SpecVerify == InitVerify /\ [][CallVerify]_vars

----------------------------------------------------------------------------
(* Claims about verifySteps, checked under SpecVerify *)

\* the direct call has returned
Returned == out.op = "verifySteps"

\* the expected list of the call and the flat-extracted list of its file
CallExpected == inp.expectedSteps
CallActual == findStepsInTest(inp.testFile)

\* the indices (1-based) at which the two lists differ after trimming
Differing ==
    {i \in 1..Len(CallExpected) :
        i <= Len(CallActual) /\ trim(CallExpected[i]) # trim(CallActual[i])}

\* C1: for an expected and an actual list of the same length read from an
\* existing file, verifySteps returns step-mismatch exactly when some index
\* differs after trimming, and passed = true without a reason exactly when
\* none does.
C1_EqualLengthVerdict ==
    (Returned /\ fileExists(inp.testFile) /\ Len(CallExpected) = Len(CallActual))
    => /\ (Get(out.result, "reason") = "step-mismatch") <=> (Differing # {})
       /\ out.result.passed <=> (Differing = {})
       /\ out.result.passed <=> ("reason" \notin DOMAIN out.result)

\* a call with lists of equal length that differ at one index and agree at
\* another only after trimming
C1_Witness ==
    /\ Returned /\ fileExists(inp.testFile)
    /\ Len(CallExpected) = Len(CallActual)
    /\ Differing # {}
    /\ \E i \in 1..Len(CallExpected) :
          CallExpected[i] # CallActual[i] /\ i \notin Differing

\* C2: for lists of different lengths, verifySteps returns passed = false with
\* reason step-count-mismatch, missingSteps the trimmed expected entries from
\* index len(actual) on and extraSteps the trimmed actual entries from index
\* len(expected) on, whatever the common prefix holds.
C2_CountMismatchTails ==
    (Returned /\ fileExists(inp.testFile) /\ Len(CallExpected) # Len(CallActual))
    => LET ne == Len(CallExpected)
           na == Len(CallActual)
           r == out.result
       IN  /\ r.passed = FALSE
           /\ Get(r, "reason") = "step-count-mismatch"
           /\ "missingSteps" \in DOMAIN r /\ "extraSteps" \in DOMAIN r
           /\ Len(r.missingSteps) = (IF na < ne THEN ne - na ELSE 0)
           /\ \A k \in 1..Len(r.missingSteps) :
                 r.missingSteps[k] = trim(CallExpected[na + k])
           /\ Len(r.extraSteps) = (IF ne < na THEN na - ne ELSE 0)
           /\ \A k \in 1..Len(r.extraSteps) :
                 r.extraSteps[k] = trim(CallActual[ne + k])
           /\ "mismatchedSteps" \notin DOMAIN r

\* a call with a shorter actual list whose common prefix differs and whose
\* missing tail needs trimming
C2_Witness ==
    /\ Returned /\ fileExists(inp.testFile)
    /\ Len(CallActual) >= 1
    /\ Len(CallExpected) > Len(CallActual)
    /\ Differing # {}
    /\ CallExpected[Len(CallExpected)] = <<" ", "A">>
    /\ out.result.missingSteps # <<>>

\* C3: when verifySteps returns step-mismatch, its mismatch list holds one entry
\* {index, expected, actual} for each index at which the trimmed steps differ,
\* in ascending index order, and none for an index at which they are equal.
C3_MismatchEntries ==
    (Returned /\ Get(out.result, "reason") = "step-mismatch")
    => LET m == out.result.mismatchedSteps
       IN  /\ Len(m) = Cardinality(Differing)
           /\ \A k \in 1..Len(m) :
                 /\ m[k].index + 1 \in Differing
                 /\ m[k].expected = trim(CallExpected[m[k].index + 1])
                 /\ m[k].actual = trim(CallActual[m[k].index + 1])
           /\ \A k \in 1..(Len(m) - 1) : m[k].index < m[k + 1].index

\* four steps of which the two middle ones are swapped: entries for the
\* indices 1 and 2 only
C3_Witness ==
    /\ Returned
    /\ Len(CallExpected) = 4
    /\ Get(out.result, "reason") = "step-mismatch"
    /\ Len(out.result.mismatchedSteps) = 2
    /\ out.result.mismatchedSteps[1].index = 1
    /\ out.result.mismatchedSteps[2].index = 2
    /\ trim(CallExpected[2]) = trim(CallActual[3])
    /\ trim(CallExpected[3]) = trim(CallActual[2])

----------------------------------------------------------------------------
(* Claims about the orchestrator, checked under Spec *)

\* the run has reached the end of main(): the summary is computed
Completed == pc = "exited" /\ summary # noSummary

\* the candidate base a recorded result was resolved from: its testFile without
\* the extension (or the ".*") that ends it
TestFileBase(r) == SubSeq(r.testFile, 1, Len(r.testFile) - 1)

\* the indices in commonExtensions of the candidates of r that exist
ExistingCandidates(r) ==
    {j \in 1..Len(commonExtensions) :
        fileExists(TestFileBase(r) \o commonExtensions[j])}

\* C4: when no candidate-suffix file exists for a (spec file, level), the
\* recorded result has passed = false and reason missing-file, the verification
\* has no actual steps and misses the whole expected list, and the summary
\* counts the result as failed and as missing.
C4_MissingFile ==
    LET none == {k \in 1..Len(allResults) : ExistingCandidates(allResults[k]) = {}}
    IN  /\ \A k \in none :
              /\ allResults[k].passed = FALSE
              /\ allResults[k].reason = "missing-file"
              /\ verifications[k].actualSteps = <<>>
              /\ Get(verifications[k], "missingSteps") = verifications[k].expectedSteps
        /\ Completed => /\ summary.missingFiles >= Cardinality(none)
                        /\ summary.failedFiles >= Cardinality(none)

\* the scenarios of a spec file that list a level, by their index
Contributing(scenarios, level) ==
    {j \in 1..Len(scenarios) : \E i \in 1..Len(scenarios[j].levels) :
                                   scenarios[j].levels[i] = level}

RECURSIVE StepCount(_, _)
\* the number of steps of the scenarios with an index in J
StepCount(scenarios, J) ==
    IF J = {} THEN 0
    ELSE LET j == CHOOSE x \in J : TRUE
         IN  Len(scenarios[j].steps) + StepCount(scenarios, J \ {j})

\* C5: the expected step sequence handed to the verifier for a (spec file,
\* level) is the concatenation, in declaration order, of the steps of every
\* retained scenario that lists the level, and holds no step of another one.
C5_ExpectedIsConcatenation ==
    \A k \in 1..Len(allResults) :
        LET scenarios == extractScenarios(allResults[k].specFile)
            J == Contributing(scenarios, allResults[k].level)
            expected == verifications[k].expectedSteps
        IN  /\ Len(expected) = StepCount(scenarios, J)
            /\ \A j \in J :
                  LET offset == StepCount(scenarios, {i \in J : i < j})
                  IN  SubSeq(expected, offset + 1, offset + Len(scenarios[j].steps))
                         = scenarios[j].steps

\* a result for a level that the first of three scenarios does not list and
\* the two others do
C5_Witness ==
    \E k \in 1..Len(allResults) :
        LET scenarios == extractScenarios(allResults[k].specFile)
        IN  /\ Len(scenarios) = 3
            /\ Contributing(scenarios, allResults[k].level) = {2, 3}
            /\ verifications[k].expectedSteps = <<scenarios[2].steps[1],
                                                  scenarios[3].steps[1]>>

\* the candidate base the claim gives for a spec file and a level: <base> the
\* parent of the last segment equal to the folder name, <name> what follows
\* that segment, without .md
ClaimedBase(specFile, folder, level) ==
    LET segs == split(specFile, "/")
        t == Max({i \in 1..Len(segs) : segs[i] = folder})
        base == join(SubSeq(segs, 1, t - 1), "/")
        name == stripSuffix(join(SubSeq(segs, t + 1, Len(segs)), "/"), <<".md">>)
    IN  base \o <<"/">> \o level \o <<"/">> \o name

\* C6: for a spec file <base>/<folder>/<name>.md and a level L the candidate
\* base used for resolution is <base>/L/<name>.
C6_CandidateBase ==
    \A k \in 1..Len(allResults) :
        TestFileBase(allResults[k])
            = ClaimedBase(allResults[k].specFile, options.specguardFolderName,
                          allResults[k].level)

\* C7: resolution tries the candidate suffixes in list order and takes the
\* first whose file exists; a later candidate that exists as well is not read.
C7_FirstCandidateWins ==
    \A k \in 1..Len(allResults) :
        LET r == allResults[k]
            found == ExistingCandidates(r)
        IN  found # {} =>
               \E j \in found :
                   /\ r.testFile = TestFileBase(r) \o commonExtensions[j]
                   /\ \A i \in found : j <= i
                   /\ verifications[k].actualSteps = findStepsInTest(r.testFile)

\* a result for which two candidates with different markers exist, resolved to
\* the one with .test.ts
C7_Witness ==
    \E k \in 1..Len(allResults) :
        LET r == allResults[k]
        IN  /\ Cardinality(ExistingCandidates(r)) = 2
            /\ r.testFile = TestFileBase(r) \o <<".test.ts">>
            /\ fileExists(TestFileBase(r) \o <<".sh">>)
            /\ findStepsInTest(TestFileBase(r) \o <<".sh">>)
                  # findStepsInTest(r.testFile)
            /\ r.passed

\* C8: at the end of a run, total is the number of recorded results, passed the
\* number of results with passed = true, failed = total - passed, and missing
\* the number of results with reason missing-file.
C8_SummaryCounts ==
    Completed =>
        /\ summary.results = allResults
        /\ summary.totalFiles = Len(allResults)
        /\ summary.passedFiles
              = Cardinality({k \in 1..Len(allResults) : allResults[k].passed})
        /\ summary.failedFiles = summary.totalFiles - summary.passedFiles
        /\ summary.missingFiles
              = Cardinality({k \in 1..Len(allResults) :
                                allResults[k].reason = "missing-file"})

\* a finished run with a passed result, a missing one and one that failed on
\* its steps
C8_Witness ==
    /\ Completed
    /\ summary.passedFiles >= 1
    /\ summary.missingFiles >= 1
    /\ summary.failedFiles > summary.missingFiles

\* C9: a run that reaches its end exits with code 1 exactly when some recorded
\* result has passed = false, and with code 0 otherwise, also when it recorded
\* no result.
C9_ExitCode ==
    Completed =>
        LET failed == \E k \in 1..Len(allResults) : ~allResults[k].passed
        IN  /\ exitCode \in {0, 1}
            /\ (exitCode = 1) <=> failed

\* a finished run whose only failure is a step mismatch, exiting with 1
C9_Witness ==
    /\ Completed
    /\ exitCode = 1
    /\ summary.missingFiles = 0
    /\ \E k \in 1..Len(allResults) : allResults[k].reason = "step-mismatch"

----------------------------------------------------------------------------
(* Claim about two runs, checked under SpecTwice *)

\* C10: a second run over the unchanged tree ends with the same summary counts
\* and the same order of results as the first, whatever order the scan yields
\* the spec files in.
C10_SecondRunIdentical ==
    (Completed /\ run = 2) =>
        /\ summary.totalFiles = prev.totalFiles
        /\ summary.passedFiles = prev.passedFiles
        /\ summary.failedFiles = prev.failedFiles
        /\ summary.missingFiles = prev.missingFiles
        /\ summary.results = prev.results

----------------------------------------------------------------------------
(* Specification of the scenario parser, one line of the spec file at a time *)

MaxLines == 5

\* the lines a spec file is made of here: two headings, a levels line with a
\* repeated and an empty entry, the fences, a step and a blank line
LinePool ==
    { H2(<<"S1">>), H2(<<"S2">>),
      LevelsLine(<<"unit", ",", " ", ",", "unit", " ">>),
      FenceOpen, FenceClose, <<" ", "A">>, <<" ">> }

\* the scenarios that are written out as a spec section
StepPool == { <<"A">>, <<" ", "B">>, <<"levels:", " ", "e2e">>, H2(<<"X">>) }
Scenarios ==
    { [name |-> <<"S1">>, levels |-> levels, steps |-> steps] :
        levels \in { <<<<"unit">>>>, << <<"unit">>, <<"e2e">> >>, << <<"e2e">>, <<"unit">> >> },
        steps \in SeqsUpTo(StepPool, 2) \ {<<>>} }

\* a scenario as a spec section: heading, levels line, one step block
format(scenario) ==
    << H2(scenario.name), LevelsLine(join(scenario.levels, ",")), FenceOpen >>
    \o scenario.steps \o << FenceClose >>

noScenario == [name |-> <<>>]
ParseFile == <<"/", "a", "/", "specguard", "/", "b", ".md">>

InitParse ==
    /\ argv = <<>>
    /\ \/ \E lines \in SeqsUpTo(LinePool, MaxLines) :
             /\ tree = [p \in {ParseFile} |-> lines]
             /\ inp = [op |-> "extractScenarios", filePath |-> ParseFile,
                       scenario |-> noScenario]
       \/ \E scenario \in Scenarios :
             /\ tree = [p \in {ParseFile} |-> format(scenario)]
             /\ inp = [op |-> "extractScenarios", filePath |-> ParseFile,
                       scenario |-> scenario]
    /\ pc = "parse"
    /\ options = defaultOptions
    /\ searchDir = <<>>
    /\ pending = {}
    /\ allResults = <<>>
    /\ verifications = <<>>
    /\ warnings = <<>>
    /\ summary = noSummary
    /\ exitCode = -1
    /\ run = 1
    /\ prev = noSummary
    /\ out = [op |-> "extractScenarios", st |-> parseStart,
              rest |-> readLines(ParseFile), line |-> <<>>, before |-> parseStart,
              done |-> FALSE, result |-> <<>>]

\* one iteration of "for (const line of lines)"
ReadLine ==
    /\ pc = "parse"
    /\ out.rest # <<>>
    /\ out' = [out EXCEPT !.st = parseLine(out.st, Head(out.rest)),
                          !.before = out.st,
                          !.line = Head(out.rest),
                          !.rest = Tail(out.rest)]
    /\ UNCHANGED <<argv, tree, pc, options, searchDir, pending, allResults,
                   verifications, warnings, summary, exitCode, run, prev, inp>>

\* "Save last scenario if it exists" and return
ParseReturn ==
    /\ pc = "parse"
    /\ out.rest = <<>>
    /\ pc' = "idle"
    /\ out' = [out EXCEPT !.done = TRUE, !.result = flush(out.st)]
    /\ UNCHANGED <<argv, tree, options, searchDir, pending, allResults,
                   verifications, warnings, summary, exitCode, run, prev, inp>>

NextParse == ReadLine \/ ParseReturn

SpecParse == InitParse /\ [][NextParse]_vars

\* the parser has returned
Parsed == pc = "idle" /\ out.op = "extractScenarios" /\ out.done

\* the loop and extractScenarios give the same list
ParseAgrees == Parsed => out.result = extractScenarios(inp.filePath)

----------------------------------------------------------------------------
(* Specification of direct calls of processSpecguardFile *)

\* an implementation file with a marker that holds only a blank
ImplBlank == << Marker(<<"/", "/">>, <<"A">>), Marker(<<"#">>, <<" ">>) >>

ProcessSpec == <<"/", "a", "/", "specguard", "/", "b", ".md">>
ProcessUnit == <<"/", "a", "/", "unit", "/", "b", ".test.ts">>
ProcessE2e == <<"/", "a", "/", "e2e", "/", "b", ".sh">>

\* the trees of the direct calls: the spec file, and for each level either no
\* implementation file or one
ProcessTrees ==
    { [p \in {ProcessSpec} \cup DOMAIN impl |->
          IF p = ProcessSpec THEN text ELSE impl[p]] :
        text \in SpecTexts \cup {OnlyA, Mixed},
        impl \in UNION { [F -> {ImplAB, ImplA, ImplBA, ImplBlank, <<>>}] :
                         F \in SUBSET {ProcessUnit, ProcessE2e} } }

InitProcess ==
    /\ argv = <<>>
    /\ tree \in ProcessTrees
    /\ pc = "idle"
    /\ options = defaultOptions
    /\ searchDir = <<>>
    /\ pending = {}
    /\ allResults = <<>>
    /\ verifications = <<>>
    /\ warnings = <<>>
    /\ summary = noSummary
    /\ exitCode = -1
    /\ run = 1
    /\ prev = noSummary
    /\ inp = [op |-> "processSpecguardFile", specguardFile |-> ProcessSpec,
              baseDir |-> <<"/", "a">>]
    /\ out = noCall

CallProcess ==
    /\ inp.op = "processSpecguardFile"
    /\ out = noCall
    /\ out' = [op |-> "processSpecguardFile",
               result |-> processSpecguardFile(inp.specguardFile, inp.baseDir,
                                               options)]
    /\ UNCHANGED <<argv, tree, pc, options, searchDir, pending, allResults,
                   verifications, warnings, summary, exitCode, run, prev, inp>>

SpecProcess == InitProcess /\ [][CallProcess]_vars

----------------------------------------------------------------------------
(* Specification of direct calls of findStepsInTest *)

MaxExtract == 2

\* the lines of an implementation file: a marker, an indented marker followed
\* by a comment, a line that holds a marker behind other text, and a marker
\* followed by text that holds a double quote and a closing parenthesis
ExtractPool ==
    { Marker(<<"/", "/">>, <<"A">>),
      <<" ">> \o Marker(<<"#">>, <<"B", " ">>) \o <<" ", "#", " ", "x">>,
      <<"x", " ">> \o Marker(<<"/", "/">>, <<"A">>),
      Marker(<<"/", "/">>, <<"A">>) \o <<" ", "x", "(", "\"", "y", "\"", ")">> }

\* two files, the file that holds the lines of the first followed by the lines
\* of the second, and a path at which there is no file
ExtractA == <<"/", "a", "/", "unit", "/", "b", ".sh">>
ExtractB == <<"/", "a", "/", "unit", "/", "c", ".sh">>
ExtractAB == <<"/", "a", "/", "unit", "/", "bc", ".sh">>
ExtractNone == <<"/", "a", "/", "unit", "/", "d", ".sh">>
ExtractPaths == {ExtractA, ExtractB, ExtractAB, ExtractNone}

InitExtract ==
    /\ argv = <<>>
    /\ \E A \in SeqsUpTo(ExtractPool, MaxExtract), B \in SeqsUpTo(ExtractPool, MaxExtract) :
          tree = [p \in {ExtractA, ExtractB, ExtractAB} |->
                     IF p = ExtractA THEN A ELSE IF p = ExtractB THEN B ELSE A \o B]
    /\ pc = "idle"
    /\ options = defaultOptions
    /\ searchDir = <<>>
    /\ pending = {}
    /\ allResults = <<>>
    /\ verifications = <<>>
    /\ warnings = <<>>
    /\ summary = noSummary
    /\ exitCode = -1
    /\ run = 1
    /\ prev = noSummary
    /\ inp = [op |-> "findStepsInTest"]
    /\ out = [op |-> "findStepsInTest", steps |-> <<>>]

\* one call of findStepsInTest, on a path not yet called with
CallExtract ==
    /\ inp.op = "findStepsInTest"
    /\ \E filePath \in ExtractPaths \ DOMAIN out.steps :
          out' = [out EXCEPT !.steps = (filePath :> findStepsInTest(filePath)) @@ @]
    /\ UNCHANGED <<argv, tree, pc, options, searchDir, pending, allResults,
                   verifications, warnings, summary, exitCode, run, prev, inp>>

SpecExtract == InitExtract /\ [][CallExtract]_vars

----------------------------------------------------------------------------
(* The shell script: find_steps_in_test, verify_steps, verify_steps_verbose *)

\* the arguments that the builtin echo takes for options and does not print
echoOptions == {<<"-n">>, <<"-e">>, <<"-E">>}

\* $(echo "$step" | sed 's/^[[:space:]]*//;s/[[:space:]]*$//')
shTrim(step) == IF step \in echoOptions THEN <<>> ELSE trim(step)

\* grep -E '^[[:space:]]*(#|//)[[:space:]]*step\('
grepStep(line) ==
    LET i1 == SkipWS(line, 1)
        l1 == IF MatchAt(line, i1, <<"#">>) THEN 1
              ELSE IF MatchAt(line, i1, <<"/", "/">>) THEN 2
              ELSE 0
    IN  l1 > 0 /\ MatchAt(line, SkipWS(line, i1 + l1), <<"step", "(">>)

\* sed -E 's/^[[:space:]]*(#|\/\/)[[:space:]]*step\("(.+)"\).*$/\2/' : the
\* group 2 when the line matches, the line as it is when it does not
sedStep(line) ==
    IF stepRegex(line) # {} THEN CHOOSE x \in stepRegex(line) : TRUE ELSE line

\* find_steps_in_test, as read into actual_steps (empty lines are left out)
find_steps_in_test(file) ==
    IF ~fileExists(file) THEN <<>>
    ELSE LET kept == SelectSeq(readLines(file), grepStep)
         IN  SelectSeq([i \in 1..Len(kept) |-> sedStep(kept[i])],
                       LAMBDA x : x # <<>>)

\* the return code of verify_steps and of verify_steps_verbose after the test
\* of the file: 1 on a count mismatch or a step mismatch, 0 otherwise
shCompare(expected_steps, actual_steps) ==
    IF Len(actual_steps) # Len(expected_steps) THEN 1
    ELSE IF \E i \in 1..Len(expected_steps) :
                shTrim(expected_steps[i]) # shTrim(actual_steps[i])
    THEN 1
    ELSE 0

\* verify_steps test_file expected_steps...
verify_steps(test_file, expected_steps) ==
    IF ~fileExists(test_file) THEN 2
    ELSE shCompare(expected_steps, find_steps_in_test(test_file))

\* a verify_steps_verbose that reports a file that does not exist as a mismatch
verify_steps_verbose_no_missing(test_file, expected_steps, VERBOSE) ==
    IF ~fileExists(test_file) /\ VERBOSE = 1 THEN 1
    ELSE verify_steps(test_file, expected_steps)

\* verify_steps_verbose test_file expected_steps... ; all_match is what the
\* lines shown under VERBOSE = 1 add up to, the return code does not use it
verify_steps_verbose(test_file, expected_steps, VERBOSE) ==
    IF ~fileExists(test_file) THEN 2
    ELSE LET actual_steps == find_steps_in_test(test_file)
             shown(i) == IF i <= Len(actual_steps) THEN shTrim(actual_steps[i])
                         ELSE <<>>
             all_match ==
                 IF VERBOSE = 1
                 THEN /\ \A i \in 1..Len(expected_steps) :
                            shown(i) # <<>> /\ shTrim(expected_steps[i]) = shown(i)
                      /\ Len(actual_steps) <= Len(expected_steps)
                 ELSE TRUE
         IN  shCompare(expected_steps, actual_steps)

----------------------------------------------------------------------------
(* Specification of direct calls of the shell verify_steps, next to verifySteps *)

\* the steps a spec file may expect, and the lines of the implementation file
ShellExpectedPool == { <<" ", "A">>, <<"-n">> }
ShellLinePool ==
    { Marker(<<"#">>, <<"A">>), Marker(<<"#">>, <<"-e">>),
      <<"#", " ", "step", "(", "A", ")">> }

ShellFile == <<"/", "a", "/", "unit", "/", "b", ".sh">>

InitShell ==
    /\ argv = <<>>
    /\ \/ tree = <<>>
       \/ \E lines \in SeqsUpTo(ShellLinePool, 2) : tree = [p \in {ShellFile} |-> lines]
    /\ pc = "idle"
    /\ options = defaultOptions
    /\ searchDir = <<>>
    /\ pending = {}
    /\ allResults = <<>>
    /\ verifications = <<>>
    /\ warnings = <<>>
    /\ summary = noSummary
    /\ exitCode = -1
    /\ run = 1
    /\ prev = noSummary
    /\ \E expected \in SeqsUpTo(ShellExpectedPool, 2), VERBOSE \in {0, 1} :
          inp = [op |-> "verify_steps", test_file |-> ShellFile,
                 expected_steps |-> expected, VERBOSE |-> VERBOSE]
    /\ out = noCall

\* verify_steps, verify_steps_verbose and verifySteps called with the same file
\* and the same expected steps
CallShell ==
    /\ inp.op = "verify_steps"
    /\ out = noCall
    /\ out' = [op |-> "verify_steps",
               code |-> verify_steps(inp.test_file, inp.expected_steps),
               verboseCode |-> verify_steps_verbose(inp.test_file, inp.expected_steps,
                                                    inp.VERBOSE),
               result |-> verifySteps(inp.test_file, inp.expected_steps)]
    /\ UNCHANGED <<argv, tree, pc, options, searchDir, pending, allResults,
                   verifications, warnings, summary, exitCode, run, prev, inp>>

SpecShell == InitShell /\ [][CallShell]_vars

\* what process_specguard_file adds to PASSED_FILES, FAILED_FILES and
\* MISSING_FILES for one level, from the exit code of the verifier it calls
shTally(test_file, steps, VERBOSE) ==
    LET exit_code == IF VERBOSE = 1
                     THEN verify_steps_verbose(test_file, steps, VERBOSE)
                     ELSE verify_steps(test_file, steps)
    IN  IF exit_code = 0 THEN [passed |-> 1, failed |-> 0, missing |-> 0]
        ELSE IF exit_code = 2 THEN [passed |-> 0, failed |-> 1, missing |-> 1]
        ELSE [passed |-> 0, failed |-> 1, missing |-> 0]

----------------------------------------------------------------------------
(* Specification of a run, and a second run over the same tree with the
   verbose flag switched *)

\* the command line with --verbose taken out when it is there, put in front
\* when it is not
switchVerbose(args) ==
    IF \E i \in 1..Len(args) : args[i] = <<"--verbose">>
    THEN SelectSeq(args, LAMBDA a : a # <<"--verbose">>)
    ELSE << <<"--verbose">> >> \o args

\* the search directories of the runs: the default, and the root
VerboseArgs == { <<>>, << <<"/">> >>, << <<"--verbose">> >>, << <<"--verbose">>, <<"/">> >> }

InitVerbose ==
    /\ argv \in VerboseArgs
    /\ tree \in {TreeOf(base, specs, listing) :
                    base \in Bases, specs \in SpecChoices,
                    listing \in Listings({<<"unit", ".test.ts">>})}
    /\ InitRest

\* the program is run a second time over the same tree, with the verbose flag
\* switched
RerunVerbose ==
    /\ pc = "exited"
    /\ run = 1
    /\ summary # noSummary
    /\ argv' = switchVerbose(argv)
    /\ run' = 2
    /\ prev' = [exitCode |-> exitCode, verbose |-> options.verbose] @@ summary
    /\ pc' = "start"
    /\ allResults' = <<>>
    /\ verifications' = <<>>
    /\ warnings' = <<>>
    /\ summary' = noSummary
    /\ exitCode' = -1
    /\ UNCHANGED <<tree, options, searchDir, pending, inp, out>>

NextVerbose == Next \/ RerunVerbose

SpecVerbose == InitVerbose /\ [][NextVerbose]_vars

----------------------------------------------------------------------------
(* The release script *)

\* A version string is a record: v tells whether it begins with "v", parts
\* holds what stands between its dots. A part made of digits is the number it
\* reads as; a part that is not a number (such as "0-rc", or "NaN") is NaN.
NaN == -1

MaxPart == 1

\* JS <, <=, === and + 1 over numbers: a comparison with NaN is false
jsLess(a, b) == a # NaN /\ b # NaN /\ a < b
jsLessEq(a, b) == a # NaN /\ b # NaN /\ a <= b
jsEq(a, b) == a # NaN /\ b # NaN /\ a = b
jsSucc(a) == IF a = NaN THEN NaN ELSE a + 1

\* input.startsWith('v') ? input.slice(1) : input
normalizeVersion(input) == [input EXCEPT !.v = FALSE]

\* /^\d+\.\d+\.\d+$/.test(version)
validateVersion(version) ==
    /\ ~version.v
    /\ Len(version.parts) = 3
    /\ \A i \in 1..3 : version.parts[i] # NaN

\* parseVersion: normalized.split('.').map(Number), the first three entries; an
\* entry that is not there compares as NaN does
parseVersion(version) ==
    LET parts == normalizeVersion(version).parts
        at(i) == IF i <= Len(parts) THEN parts[i] ELSE NaN
    IN  [major |-> at(1), minor |-> at(2), patch |-> at(3)]

\* the string `${a}.${b}.${c}`
versionString(a, b, c) == [v |-> FALSE, parts |-> <<a, b, c>>]

\* incrementVersion(current, type)
incrementVersion(current, type) ==
    LET version == parseVersion(current)
    IN  IF type = "major" THEN versionString(jsSucc(version.major), 0, 0)
        ELSE IF type = "minor"
        THEN versionString(version.major, jsSucc(version.minor), 0)
        ELSE versionString(version.major, version.minor, jsSucc(version.patch))

\* validateVersionProgression(current, next): TRUE when it returns, FALSE when
\* it ends the process with code 1
validateVersionProgression(current, next) ==
    LET currentVer == parseVersion(current)
        nextVer == parseVersion(next)
    IN  /\ ~jsLess(nextVer.major, currentVer.major)
        /\ ~(jsEq(nextVer.major, currentVer.major)
               /\ jsLess(nextVer.minor, currentVer.minor))
        /\ ~(/\ jsEq(nextVer.major, currentVer.major)
             /\ jsEq(nextVer.minor, currentVer.minor)
             /\ jsLessEq(nextVer.patch, currentVer.patch))

\* checkTagExists(version): TRUE when it returns; git tag -l lists the tag
checkTagExists(tags, version) == version.parts \notin tags

\* the repository before the script has changed it
releaseStart(current, tags) ==
    [op |-> "release", packageVersion |-> current, tags |-> tags,
     newVersion |-> current, confirmed |-> "unasked"]

\* main() up to the confirmation prompt
ReleaseCheck ==
    /\ pc = "release"
    /\ LET input == inp.input
           currentVersion == out.packageVersion
           newVersion ==
               IF input.kind = "+"
               THEN incrementVersion(currentVersion, input.increment)
               ELSE normalizeVersion(input.version)
       IN  IF input.kind = "help"
           THEN pc' = "exited" /\ exitCode' = 0 /\ UNCHANGED out
           ELSE IF \/ inp.dirty
                   \/ input.kind = "+"
                        /\ input.increment \notin {"major", "minor", "patch"}
                   \/ input.kind = "version" /\ ~validateVersion(newVersion)
           THEN pc' = "exited" /\ exitCode' = 1 /\ UNCHANGED out
           ELSE IF \/ ~validateVersionProgression(currentVersion, newVersion)
                   \/ ~checkTagExists(out.tags, newVersion)
           THEN pc' = "exited" /\ exitCode' = 1 /\ UNCHANGED out
           ELSE /\ pc' = "prompt"
                /\ out' = [out EXCEPT !.newVersion = newVersion]
                /\ UNCHANGED exitCode
    /\ UNCHANGED <<argv, tree, options, searchDir, pending, allResults,
                   verifications, warnings, summary, run, prev, inp>>

\* confirm(), then updatePackageVersion and createAndPushTag: the answer is read
\* from the console; a tag that cannot be created or pushed is deleted again
ReleaseConfirm ==
    /\ pc = "prompt"
    /\ \E confirmed \in BOOLEAN, pushed \in BOOLEAN :
          IF ~confirmed
          THEN exitCode' = 0 /\ out' = [out EXCEPT !.confirmed = "no"]
          ELSE IF pushed
          THEN /\ exitCode' = 0
               /\ out' = [out EXCEPT !.confirmed = "yes",
                                     !.packageVersion = out.newVersion,
                                     !.tags = @ \cup {out.newVersion.parts}]
          ELSE /\ exitCode' = 1
               /\ out' = [out EXCEPT !.confirmed = "yes",
                                     !.packageVersion = out.newVersion]
    /\ pc' = "exited"
    /\ UNCHANGED <<argv, tree, options, searchDir, pending, allResults,
                   verifications, warnings, summary, run, prev, inp>>

\* the parts of a version, the versions of package.json, and the command lines
PartPool == 0..MaxPart \cup {NaN}
CurrentVersions == {versionString(a, b, c) : a \in 0..MaxPart, b \in 0..MaxPart,
                                             c \in PartPool}
ReleaseInputs ==
    {[kind |-> "help"]}
    \cup {[kind |-> "+", increment |-> t] : t \in {"major", "minor", "patch", "bogus"}}
    \cup {[kind |-> "version", version |-> [v |-> v, parts |-> <<a, b, c>>]] :
            v \in BOOLEAN, a \in 0..MaxPart, b \in 0..MaxPart, c \in PartPool}
    \cup {[kind |-> "version", version |-> [v |-> FALSE, parts |-> <<1, 0>>]]}

InitRelease ==
    /\ argv = <<>>
    /\ tree = <<>>
    /\ pc = "release"
    /\ options = defaultOptions
    /\ searchDir = <<>>
    /\ pending = {}
    /\ allResults = <<>>
    /\ verifications = <<>>
    /\ warnings = <<>>
    /\ summary = noSummary
    /\ exitCode = -1
    /\ run = 1
    /\ prev = noSummary
    /\ \E input \in ReleaseInputs, current \in CurrentVersions, dirty \in BOOLEAN,
          tags \in {{}, {<<1, 0, 0>>}} :
          /\ inp = [op |-> "release", input |-> input, dirty |-> dirty,
                    current |-> current, tags |-> tags]
          /\ out = releaseStart(current, tags)

NextRelease == ReleaseCheck \/ ReleaseConfirm

SpecRelease == InitRelease /\ [][NextRelease]_vars

----------------------------------------------------------------------------
(* The installer *)

MaxArgs == 3

noInstallOptions ==
    [help |-> FALSE, installPath |-> undefined, localSource |-> undefined,
     error |-> FALSE]

RECURSIVE parseInstallArgsLenient(_, _, _)
\* a parseInstallArgs that passes over the arguments it does not know
parseInstallArgsLenient(args, i, opts) ==
    IF i > Len(args) \/ opts.error THEN opts
    ELSE LET arg == args[i]
         IN  IF arg \in {"--install-path", "--local-source"}
             THEN IF i + 1 > Len(args) \/ args[i + 1] = ""
                  THEN [opts EXCEPT !.error = TRUE]
                  ELSE parseInstallArgsLenient(args, i + 2,
                          IF arg = "--install-path"
                          THEN [opts EXCEPT !.installPath = args[i + 1]]
                          ELSE [opts EXCEPT !.localSource = args[i + 1]])
             ELSE IF arg \in {"--help", "-h"}
             THEN parseInstallArgsLenient(args, i + 1, [opts EXCEPT !.help = TRUE])
             ELSE parseInstallArgsLenient(args, i + 1, opts)

RECURSIVE parseInstallArgs(_, _, _)
\* the loop of parseInstallArgs from index i (1-based) on; error stands for
\* process.exit(1)
parseInstallArgs(args, i, opts) ==
    IF i > Len(args) \/ opts.error THEN opts
    ELSE LET arg == args[i]
         IN  IF arg \in {"--install-path", "--local-source"}
             THEN IF i + 1 > Len(args) \/ args[i + 1] = ""
                  THEN [opts EXCEPT !.error = TRUE]
                  ELSE parseInstallArgs(args, i + 2,
                          IF arg = "--install-path"
                          THEN [opts EXCEPT !.installPath = args[i + 1]]
                          ELSE [opts EXCEPT !.localSource = args[i + 1]])
             ELSE IF arg \in {"--help", "-h"}
             THEN parseInstallArgs(args, i + 1, [opts EXCEPT !.help = TRUE])
             ELSE [opts EXCEPT !.error = TRUE]

\* what the installer has done to the machine, and the step that threw
installStart(dirExists) ==
    [op |-> "install", dirExists |-> dirExists, dirCreated |-> FALSE,
     needsSudo |-> FALSE, obtained |-> "nothing", written |-> FALSE,
     executable |-> FALSE, reported |-> FALSE, failed |-> "none"]

\* the catch of install(): process.exit(1)
installThrow(step) ==
    /\ out' = [out EXCEPT !.failed = step]
    /\ pc' = "exited"
    /\ exitCode' = 1

\* install(): parseInstallArgs and the help
InstallParse ==
    /\ pc = "install"
    /\ LET opts == parseInstallArgs(inp.args, 1, noInstallOptions)
       IN  /\ options' = opts
           /\ IF opts.error THEN pc' = "exited" /\ exitCode' = 1
              ELSE IF opts.help THEN pc' = "exited" /\ exitCode' = 0
              ELSE pc' = "locate" /\ UNCHANGED exitCode
    /\ UNCHANGED <<argv, tree, searchDir, pending, allResults, verifications,
                   warnings, summary, run, prev, inp, out>>

\* determineInstallLocation: with a custom path a directory that cannot be
\* made throws; without, it falls back to /usr/local/bin with sudo
InstallLocate ==
    /\ pc = "locate"
    /\ \E made \in BOOLEAN :
          IF out.dirExists
          THEN out' = out /\ pc' = "source" /\ UNCHANGED exitCode
          ELSE IF made
          THEN /\ out' = [out EXCEPT !.dirCreated = TRUE]
               /\ pc' = "source" /\ UNCHANGED exitCode
          ELSE IF options.installPath # undefined
          THEN installThrow("locate")
          ELSE /\ out' = [out EXCEPT !.needsSudo = TRUE]
               /\ pc' = "source" /\ UNCHANGED exitCode
    /\ UNCHANGED <<argv, tree, options, searchDir, pending, allResults,
                   verifications, warnings, summary, run, prev, inp>>

\* getInstallSource: built from the local source, or downloaded
InstallSource ==
    /\ pc = "source"
    /\ \E ok \in BOOLEAN :
          IF ok
          THEN /\ out' = [out EXCEPT !.obtained =
                             IF options.localSource # undefined THEN "built"
                             ELSE "downloaded"]
               /\ pc' = "write" /\ UNCHANGED exitCode
          ELSE installThrow("source")
    /\ UNCHANGED <<argv, tree, options, searchDir, pending, allResults,
                   verifications, warnings, summary, run, prev, inp>>

\* installScript: Bun.write, or the write of a temporary file and sudo mv
InstallWrite ==
    /\ pc = "write"
    /\ \E ok \in BOOLEAN :
          IF ok
          THEN /\ out' = [out EXCEPT !.written = TRUE]
               /\ pc' = "chmod" /\ UNCHANGED exitCode
          ELSE installThrow("write")
    /\ UNCHANGED <<argv, tree, options, searchDir, pending, allResults,
                   verifications, warnings, summary, run, prev, inp>>

\* installScript: chmod +x
InstallChmod ==
    /\ pc = "chmod"
    /\ \E ok \in BOOLEAN :
          IF ok
          THEN /\ out' = [out EXCEPT !.executable = TRUE]
               /\ pc' = "verify" /\ UNCHANGED exitCode
          ELSE installThrow("chmod")
    /\ UNCHANGED <<argv, tree, options, searchDir, pending, allResults,
                   verifications, warnings, summary, run, prev, inp>>

\* verifyInstallation: existsSync(installPath); the file may have been taken
\* away since it was written
InstallVerify ==
    /\ pc = "verify"
    /\ \E present \in {out.written, FALSE} :
          IF present
          THEN /\ out' = [out EXCEPT !.reported = TRUE]
               /\ pc' = "exited" /\ exitCode' = 0
          ELSE /\ out' = [out EXCEPT !.written = FALSE, !.failed = "verify"]
               /\ pc' = "exited" /\ exitCode' = 1
    /\ UNCHANGED <<argv, tree, options, searchDir, pending, allResults,
                   verifications, warnings, summary, run, prev, inp>>

\* the words of a command line of the installer
InstallWords == {"--install-path", "--local-source", "--help", "--bogus", "/p", ""}

InitInstall ==
    /\ argv = <<>>
    /\ tree = <<>>
    /\ pc = "install"
    /\ options = noInstallOptions
    /\ searchDir = <<>>
    /\ pending = {}
    /\ allResults = <<>>
    /\ verifications = <<>>
    /\ warnings = <<>>
    /\ summary = noSummary
    /\ exitCode = -1
    /\ run = 1
    /\ prev = noSummary
    /\ \E args \in UNION {[1..n -> InstallWords] : n \in 0..MaxArgs},
          dirExists \in BOOLEAN :
          /\ inp = [op |-> "install", args |-> args]
          /\ out = installStart(dirExists)

NextInstall ==
    \/ InstallParse
    \/ InstallLocate
    \/ InstallSource
    \/ InstallWrite
    \/ InstallChmod
    \/ InstallVerify

SpecInstall == InitInstall /\ [][NextInstall]_vars

----------------------------------------------------------------------------
(* Claims about the scenario parser, checked under SpecParse *)

\* C12: a scenario with at least one step, written out as a spec section and
\* parsed, comes back as the single scenario of the file, with the same name,
\* the same levels in the same order and the same steps in the same order.
C12_RoundTrip ==
    (Parsed /\ inp.scenario # noScenario) => out.result = <<inp.scenario>>

\* the lines of the file being parsed
ParsedLines == readLines(inp.filePath)

\* the indices of the heading lines
Headings == {i \in 1..Len(ParsedLines) : h2Match(ParsedLines[i])}

\* the index of the last line before the heading that follows line i
SectionEnd(i) ==
    Min({j \in Headings : j > i} \cup {Len(ParsedLines) + 1}) - 1

\* a line that begins with a fence, and one that opens a step block
IsFence(line) == MatchAt(line, 1, <<Fence>>)
IsOpener(line) == MatchAt(line, 1, FenceOpen)

\* line j of the section of heading i lies in a step block: the last fence
\* line of the section before it is an opener
InBlock(i, j) ==
    \E k \in (i + 1)..(j - 1) :
        /\ IsOpener(ParsedLines[k])
        /\ \A m \in (k + 1)..(j - 1) :
              IsFence(ParsedLines[m]) => IsOpener(ParsedLines[m])

\* the step lines captured in the section of heading i
CapturedIn(i) ==
    {j \in (i + 1)..SectionEnd(i) :
        /\ trim(ParsedLines[j]) # <<>>
        /\ ~levelsMatch(ParsedLines[j])
        /\ ~IsFence(ParsedLines[j])
        /\ InBlock(i, j)}

\* C13: the parser returns a scenario for a heading exactly when a step line
\* was captured between it and the next heading or the end of the file; the
\* scenarios come in heading order, each with the steps captured for it.
C13_ScenarioIffStep ==
    Parsed =>
        LET kept == {i \in Headings : CapturedIn(i) # {}}
        IN  /\ Len(out.result) = Cardinality(kept)
            /\ \A i \in kept :
                  LET scenario == out.result[Cardinality({h \in kept : h <= i})]
                  IN  /\ scenario.name = h2Name(ParsedLines[i])
                      /\ Len(scenario.steps) = Cardinality(CapturedIn(i))
                      /\ \A j \in CapturedIn(i) :
                            scenario.steps[Cardinality({c \in CapturedIn(i) : c <= j})]
                               = ParsedLines[j]

\* a file with a heading and a levels line without steps, then a second
\* heading with a step: the one scenario returned is the second
C13_Witness ==
    /\ Parsed
    /\ Cardinality(Headings) = 2
    /\ levelsMatch(ParsedLines[2])
    /\ Len(out.result) = 1
    /\ out.result[1].name = h2Name(ParsedLines[3])
    /\ out.result[1].name # h2Name(ParsedLines[1])

\* the entries of a levels line: what follows "levels:", split on commas,
\* trimmed, without the empty ones
LevelEntries(line) ==
    filterBoolean(Map(trim, split(trim(SubSeq(line, 2, Len(line))), ",")))

RECURSIVE FirstOccurrences(_, _)
\* the members of xs in order, each kept where it occurs first
FirstOccurrences(xs, seen) ==
    IF xs = <<>> THEN <<>>
    ELSE IF Head(xs) \in seen THEN FirstOccurrences(Tail(xs), seen)
    ELSE <<Head(xs)>> \o FirstOccurrences(Tail(xs), seen \cup {Head(xs)})

\* the parser has just read a levels line outside a step block while a
\* scenario was open
ReadLevels ==
    /\ out.op = "extractScenarios"
    /\ out.before.open /\ ~out.before.inCodeblock
    /\ levelsMatch(out.line) /\ ~h2Match(out.line)

\* C14: after a levels line is read while a scenario is open, the scenario's
\* levels are the comma-separated entries, trimmed, without empty entries, in
\* first-occurrence order, each level once.
C14_LevelsOnce ==
    ReadLevels => out.st.current.levels = FirstOccurrences(LevelEntries(out.line), {})

\* the parser has just read a non-blank line that is not a fence inside a step
\* block of an open scenario
ReadInBlock ==
    /\ out.op = "extractScenarios"
    /\ out.before.open /\ out.before.inCodeblock
    /\ trim(out.line) # <<>>
    /\ ~IsFence(out.line)

\* C15: a non-blank line read inside a step block of an open scenario, whatever
\* it holds, is appended untrimmed to the scenario's steps and changes neither
\* the scenario's name or levels nor the scenarios already pushed, and the
\* parser stays inside the block.
C15_BlockLineIsStep ==
    ReadInBlock =>
        out.st = [out.before EXCEPT !.currentSteps = Append(@, out.line)]

----------------------------------------------------------------------------
(* Claims about the results recorded per spec file, checked under Spec *)

\* the spec files the scan yields, by their full path
Discovered ==
    {normalize(joinPath(<<searchDir, f>>)) :
        f \in globScan(searchDir, options.specguardFolderName)}

\* the distinct levels the retained scenarios of a spec file name
LevelsNamed(specFile) ==
    LET scenarios == extractScenarios(specFile)
    IN  {trim(scenarios[j].levels[i]) :
            <<j, i>> \in {x \in (1..Len(scenarios)) \X (1..4) :
                            x[2] <= Len(scenarios[x[1]].levels)}}

\* the indices of the results recorded for a spec file
ResultsOf(specFile) ==
    {k \in 1..Len(allResults) : allResults[k].specFile = specFile}

\* C11: at the end of a run every discovered spec file with a retained scenario
\* has exactly one result per distinct level its scenarios name, whether or not
\* other levels or spec files failed or miss their file.
C11_OneResultPerLevel ==
    Completed =>
        \A f \in Discovered :
            extractScenarios(f) # <<>> =>
               /\ \A k \in ResultsOf(f) : allResults[k].level \in LevelsNamed(f)
               /\ \A level \in LevelsNamed(f) :
                     Cardinality({k \in ResultsOf(f) : allResults[k].level = level}) = 1

\* a finished run over two spec files in which a result that misses its file is
\* followed by the result of the other spec file, one of the two naming its
\* level twice in one scenario
C11_Witness ==
    /\ Completed
    /\ Cardinality(Discovered) = 2
    /\ Len(allResults) = 2
    /\ allResults[1].reason = "missing-file"
    /\ \E f \in Discovered :
          \E j \in 1..Len(extractScenarios(f)) :
              LET levels == extractScenarios(f)[j].levels
              IN  Len(levels) = 2 /\ levels[1] = levels[2]

\* the number of heading lines of a spec file
HeadingCount(specFile) ==
    Cardinality({i \in 1..Len(readLines(specFile)) : h2Match(readLines(specFile)[i])})

\* C16: whenever a scenario of a discovered spec file is discarded for having
\* no steps, a warning is logged for that file, also when other scenarios of
\* the file are retained.
C16_WarnDiscarded ==
    Completed =>
        \A f \in Discovered :
            HeadingCount(f) > Len(extractScenarios(f)) =>
                \E w \in 1..Len(warnings) : warnings[w] = f

----------------------------------------------------------------------------
(* Claim about a spec file without scenarios, checked under SpecWithout *)

\* C17: a discovered spec file whose parse yields no scenario is warned about
\* once and has no result, and a run over the tree without that file ends with
\* the same total, passed, failed and missing counts and the same exit code.
C17_EmptySpecSkipped ==
    /\ Completed =>
          \A f \in Discovered :
              extractScenarios(f) = <<>> =>
                 /\ ResultsOf(f) = {}
                 /\ Cardinality({w \in 1..Len(warnings) : warnings[w] = f}) = 1
    /\ (Completed /\ run = 2) =>
          /\ summary.totalFiles = prev.totalFiles
          /\ summary.passedFiles = prev.passedFiles
          /\ summary.failedFiles = prev.failedFiles
          /\ summary.missingFiles = prev.missingFiles
          /\ exitCode = prev.exitCode

\* the second of two runs has ended; the first ran over a spec file without
\* scenarios and a spec file whose one result failed
C17_Witness ==
    /\ Completed /\ run = 2
    /\ prev.totalFiles = 1 /\ prev.failedFiles = 1 /\ prev.exitCode = 1
    /\ Cardinality(Discovered) = 1
    /\ warnings = <<>>

----------------------------------------------------------------------------
(* Claims about the breakdown per scenario, checked under SpecProcess *)

\* processSpecguardFile has returned
Processed == out.op = "processSpecguardFile"

\* the results returned, and the scenarios of the spec file
ProcessResults == out.result.results
ProcessScenarios == extractScenarios(inp.specguardFile)

\* the positional comparison of the verifier: the count check, then the
\* elementwise check of the trimmed steps
Compare(expected, actual) ==
    IF Len(expected) # Len(actual)
    THEN [passed |-> FALSE, reason |-> "step-count-mismatch"]
    ELSE IF \E i \in 1..Len(expected) : trim(expected[i]) # trim(actual[i])
    THEN [passed |-> FALSE, reason |-> "step-mismatch"]
    ELSE [passed |-> TRUE, reason |-> undefined]

\* actual[offset, offset + n), as far as actual reaches
ActualSlice(actual, offset, n) ==
    [i \in 1..Max({0, Min({n, Len(actual) - offset})}) |-> actual[offset + i]]

\* C18: for a level whose implementation file exists, the breakdown of every
\* contributing scenario has the passed flag and the reason of the positional
\* comparison of its steps with the slice of the actual steps that begins at
\* the sum of the step counts of the contributing scenarios before it.
C18_BreakdownIsComparison ==
    Processed =>
        \A k \in 1..Len(ProcessResults) :
            LET r == ProcessResults[k]
                J == Contributing(ProcessScenarios, r.level)
                actual == out.result.verifications[k].actualSteps
            IN  fileExists(r.testFile) =>
                  /\ Len(r.scenarioResults) = Cardinality(J)
                  /\ \A j \in J :
                        LET scenario == ProcessScenarios[j]
                            before == {i \in J : i < j}
                            sv == r.scenarioResults[Cardinality(before) + 1].stepVerification
                            cmp == Compare(scenario.steps,
                                           ActualSlice(actual,
                                                       StepCount(ProcessScenarios, before),
                                                       Len(scenario.steps)))
                        IN  /\ sv.passed = cmp.passed
                            /\ Get(sv, "reason") = cmp.reason

\* C19: when the implementation file of a level is missing, the breakdown has
\* an entry for every contributing scenario, each with passed = false and
\* reason missing-file.
C19_MissingBreakdown ==
    Processed =>
        \A k \in 1..Len(ProcessResults) :
            LET r == ProcessResults[k]
            IN  ~fileExists(r.testFile) =>
                  /\ Len(r.scenarioResults)
                        = Cardinality(Contributing(ProcessScenarios, r.level))
                  /\ \A j \in 1..Len(r.scenarioResults) :
                        /\ r.scenarioResults[j].stepVerification.passed = FALSE
                        /\ Get(r.scenarioResults[j].stepVerification, "reason")
                              = "missing-file"

\* a level without implementation file to which two scenarios contribute, next
\* to a level whose file exists
C19_Witness ==
    /\ Processed
    /\ \E k \in 1..Len(ProcessResults) :
          /\ ~fileExists(ProcessResults[k].testFile)
          /\ Len(ProcessResults[k].scenarioResults) = 2
    /\ \E k \in 1..Len(ProcessResults) : fileExists(ProcessResults[k].testFile)

----------------------------------------------------------------------------
(* Claim about the flat extraction, checked under SpecExtract *)

\* findStepsInTest has returned for every path
Extracted == out.op = "findStepsInTest" /\ DOMAIN out.steps = ExtractPaths

\* the indices of the marker lines of a file
MarkerLines(filePath) ==
    {i \in 1..Len(readLines(filePath)) : stepRegex(readLines(filePath)[i]) # {}}

\* C20: the steps extracted from a file are the steps of its marker lines in
\* line order and nothing else; the steps of a text followed by another are the
\* steps of the first followed by the steps of the second; a path without file
\* gives the empty list.
C20_FlatExtraction ==
    /\ out.op = "findStepsInTest" =>
          \A filePath \in DOMAIN out.steps :
              IF fileExists(filePath)
              THEN /\ Len(out.steps[filePath]) = Cardinality(MarkerLines(filePath))
                   /\ \A i \in MarkerLines(filePath) :
                         out.steps[filePath][Cardinality({m \in MarkerLines(filePath) : m <= i})]
                            \in stepRegex(readLines(filePath)[i])
              ELSE out.steps[filePath] = <<>>
    /\ Extracted =>
          out.steps[ExtractAB] = out.steps[ExtractA] \o out.steps[ExtractB]

\* the first text has a marker behind a line that is none, the second a marker
\* too, and all four paths have been called with
C20_Witness ==
    /\ Extracted
    /\ Len(readLines(ExtractA)) = 2 /\ MarkerLines(ExtractA) = {2}
    /\ MarkerLines(ExtractB) # {}
    /\ Len(out.steps[ExtractAB]) >= 2
    /\ out.steps[ExtractNone] = <<>>

----------------------------------------------------------------------------
(* Claim about the structure of an implementation file, checked under
   SpecRestructured *)

\* what the results of a run record for each (spec file, level)
Verdicts(results) ==
    {[specFile |-> results[k].specFile, level |-> results[k].level,
      testFile |-> results[k].testFile, passed |-> results[k].passed,
      reason |-> results[k].reason] : k \in 1..Len(results)}

\* C21: the passed flag and the reason recorded for a (spec file, level) depend
\* on the implementation file only through the flat list of its markers: after
\* the file is rearranged into describe blocks around the same markers, the run
\* records the same passed flag and reason.
C21_VerdictFromFlatList ==
    (Completed /\ run = 2) =>
        /\ Len(summary.results) = Len(prev.results)
        /\ Verdicts(summary.results) = Verdicts(prev.results)

\* the second run has ended with a passed result for a file whose two markers
\* now lie in a describe block each
C21_Witness ==
    /\ Completed /\ run = 2
    /\ \E k \in 1..Len(allResults) :
          /\ allResults[k].passed
          /\ fileExists(allResults[k].testFile)
          /\ Cardinality({i \in 1..Len(readLines(allResults[k].testFile)) :
                readLines(allResults[k].testFile)[i] = DescribeClose}) = 2

----------------------------------------------------------------------------
(* Claim about a spec file in a subdirectory of the spec folder, checked under
   SpecNested *)

\* C22: a spec file parent/specguard/capabilities/feature2.md is discovered,
\* and for every level its retained scenarios name there is a result whose
\* implementation file is parent/<level>/capabilities/feature2.<suffix>.
C22_NestedMirrored ==
    (Completed /\ extractScenarios(NestedSpec) # <<>>) =>
        \A level \in LevelsNamed(NestedSpec) :
            \E k \in 1..Len(allResults) :
                /\ allResults[k].specFile = NestedSpec
                /\ allResults[k].level = level
                /\ TestFileBase(allResults[k])
                      = <<"/", "a", "/">> \o level
                           \o <<"/", "capabilities", "/", "feature2">>

\* the contents of the first double-quoted string of a line
FirstQuoted(line) ==
    LET quotes == {i \in 1..Len(line) : line[i] = "\""}
        first == Min(quotes)
        second == Min(quotes \ {first})
    IN  SubSeq(line, first + 1, second - 1)

\* C23: the step extracted from a marker line is the contents of the first
\* double-quoted string of the line, whatever follows the marker on the line.
C23_FirstQuotedText ==
    out.op = "findStepsInTest" =>
        \A filePath \in DOMAIN out.steps :
            fileExists(filePath) =>
               /\ Len(out.steps[filePath]) = Cardinality(MarkerLines(filePath))
               /\ \A i \in MarkerLines(filePath) :
                     out.steps[filePath][Cardinality({m \in MarkerLines(filePath) : m <= i})]
                        = FirstQuoted(readLines(filePath)[i])

----------------------------------------------------------------------------
(* Claim about the shell verify_steps, checked under SpecShell *)

\* C24: when the script and the TypeScript extract the same actual steps from
\* the file, verify_steps returns 0 exactly when verifySteps passes, 2 exactly
\* when it reports missing-file and 1 exactly when it reports a count or a step
\* mismatch, and verify_steps_verbose returns the code of verify_steps.
C24_ShellAgrees ==
    (out.op = "verify_steps"
       /\ find_steps_in_test(inp.test_file) = findStepsInTest(inp.test_file))
    => /\ (out.code = 0) <=> out.result.passed
       /\ (out.code = 2) <=> (Get(out.result, "reason") = "missing-file")
       /\ (out.code = 1) <=> (Get(out.result, "reason")
                                 \in {"step-count-mismatch", "step-mismatch"})
       /\ out.verboseCode = out.code

----------------------------------------------------------------------------
(* Claims about the results of a spec file, checked under SpecProcess *)

\* every breakdown per scenario of a result has passed
AllBreakdownsPassed(r) ==
    \A j \in 1..Len(r.scenarioResults) : r.scenarioResults[j].stepVerification.passed

\* the file of the verification exists and holds more markers than expected,
\* the first of which agree with the expected steps
SurplusOnly(r, v) ==
    /\ fileExists(r.testFile)
    /\ Len(v.actualSteps) > Len(v.expectedSteps)
    /\ \A i \in 1..Len(v.expectedSteps) :
          trim(v.expectedSteps[i]) = trim(v.actualSteps[i])

\* C25: a result that passed has no failing breakdown per scenario; a result
\* that failed has a failing breakdown, except when its file holds more markers
\* than expected and the markers at the expected positions agree, where every
\* breakdown has passed.
C25_PassedIffBreakdowns ==
    Processed =>
        \A k \in 1..Len(ProcessResults) :
            LET r == ProcessResults[k]
                v == out.result.verifications[k]
            IN  /\ r.passed => AllBreakdownsPassed(r)
                /\ ~r.passed => (AllBreakdownsPassed(r) <=> SurplusOnly(r, v))

\* one result that passed with two breakdowns, next to one that failed by its
\* count while its only breakdown passed
C25_Witness ==
    /\ Processed
    /\ \E k \in 1..Len(ProcessResults) :
          ProcessResults[k].passed /\ Len(ProcessResults[k].scenarioResults) = 2
    /\ \E k \in 1..Len(ProcessResults) :
          /\ ~ProcessResults[k].passed
          /\ ProcessResults[k].reason = "step-count-mismatch"
          /\ AllBreakdownsPassed(ProcessResults[k])

\* the statement without the exception: passed exactly when every breakdown
\* has passed
C25_Original ==
    Processed =>
        \A k \in 1..Len(ProcessResults) :
            ProcessResults[k].passed <=> AllBreakdownsPassed(ProcessResults[k])

----------------------------------------------------------------------------
(* Claim about reasons and counts, checked under Spec *)

Reasons == {"missing-file", "step-count-mismatch", "step-mismatch"}

\* C26: every verification and every recorded result has passed = true exactly
\* when it carries no reason, a reason is one of missing-file,
\* step-count-mismatch and step-mismatch, and in the summary of a finished run
\* missing <= failed <= total and passed + failed = total.
C26_ReasonIffFailed ==
    /\ \A k \in 1..Len(verifications) :
          /\ verifications[k].passed <=> (Get(verifications[k], "reason") = undefined)
          /\ Get(verifications[k], "reason") \in Reasons \cup {undefined}
    /\ \A k \in 1..Len(allResults) :
          /\ allResults[k].passed <=> (allResults[k].reason = undefined)
          /\ allResults[k].reason \in Reasons \cup {undefined}
    /\ Completed =>
          /\ summary.missingFiles <= summary.failedFiles
          /\ summary.failedFiles <= summary.totalFiles
          /\ summary.passedFiles + summary.failedFiles = summary.totalFiles

\* a finished run that recorded a result without file and one with a count
\* mismatch next to one that passed
C26_Witness ==
    /\ Completed
    /\ \A reason \in {"missing-file", "step-count-mismatch", undefined} :
          \E k \in 1..Len(allResults) : allResults[k].reason = reason
    /\ 0 < summary.missingFiles
    /\ summary.missingFiles < summary.failedFiles
    /\ summary.failedFiles < summary.totalFiles

\* C27: the expected steps handed to the verifier are never empty: every level
\* processed is listed by a retained scenario, every retained scenario has a
\* step, and a result whose implementation file exists without any marker has
\* not passed.
C27_ExpectedNeverEmpty ==
    Processed =>
        /\ \A j \in 1..Len(ProcessScenarios) : Len(ProcessScenarios[j].steps) >= 1
        /\ \A k \in 1..Len(ProcessResults) :
              LET r == ProcessResults[k]
                  v == out.result.verifications[k]
              IN  /\ Contributing(ProcessScenarios, r.level) # {}
                  /\ Len(v.expectedSteps) >= 1
                  /\ (fileExists(r.testFile) /\ findStepsInTest(r.testFile) = <<>>)
                        => ~r.passed

\* a result whose implementation file exists and holds no marker
C27_Witness ==
    /\ Processed
    /\ \E k \in 1..Len(ProcessResults) :
          /\ fileExists(ProcessResults[k].testFile)
          /\ findStepsInTest(ProcessResults[k].testFile) = <<>>
          /\ ~ProcessResults[k].passed
          /\ Len(out.result.verifications[k].expectedSteps) = 2

----------------------------------------------------------------------------
(* Claim about the verbose flag, checked under SpecVerbose *)

\* C28: a second run over the same tree with the verbose flag switched records
\* the same implementation path, level, passed flag and reason for every result,
\* the same summary counts and the same exit code; and for every verification
\* of a run the script counts the same with verify_steps_verbose under
\* VERBOSE = 1 as with verify_steps.
C28_VerboseOnlyPrints ==
    /\ (Completed /\ run = 2) =>
          /\ options.verbose # prev.verbose
          /\ Len(summary.results) = Len(prev.results)
          /\ Verdicts(summary.results) = Verdicts(prev.results)
          /\ summary.totalFiles = prev.totalFiles
          /\ summary.passedFiles = prev.passedFiles
          /\ summary.failedFiles = prev.failedFiles
          /\ summary.missingFiles = prev.missingFiles
          /\ exitCode = prev.exitCode
    /\ \A k \in 1..Len(allResults) :
          /\ shTally(allResults[k].testFile, verifications[k].expectedSteps, 1)
                = shTally(allResults[k].testFile, verifications[k].expectedSteps, 0)
          /\ verify_steps_verbose(allResults[k].testFile,
                                  verifications[k].expectedSteps, 0)
                = verify_steps(allResults[k].testFile, verifications[k].expectedSteps)

\* the second run has ended under --verbose after a first run without it, with
\* a result that passed, one without file and one that failed on its steps
C28_Witness ==
    /\ Completed /\ run = 2
    /\ options.verbose /\ ~prev.verbose
    /\ summary.passedFiles >= 1
    /\ summary.missingFiles >= 1
    /\ summary.failedFiles > summary.missingFiles

----------------------------------------------------------------------------
(* Claim about the release script, checked under SpecRelease *)

\* next is greater than current in the order of (major, minor, patch)
Greater(next, current) ==
    /\ \A i \in 1..3 : next[i] # NaN /\ current[i] # NaN
    /\ \/ next[1] > current[1]
       \/ next[1] = current[1] /\ next[2] > current[2]
       \/ next[1] = current[1] /\ next[2] = current[2] /\ next[3] > current[3]

\* the script has come to the prompt, or changed package.json or the tags
PromptReached ==
    \/ pc = "prompt"
    \/ inp.op = "release" /\ (out.packageVersion # inp.current \/ out.tags # inp.tags)

\* C29: the script comes to the confirmation prompt, and changes package.json
\* or the tags, only when the new version is greater than the current one in
\* the order of (major, minor, patch); a +major, +minor or +patch bump of a
\* current version of three numbers passes the progression check; and a
\* declined prompt leaves package.json and the tags as they were.
C29_PromptOnlyIfGreater ==
    /\ PromptReached => Greater(out.newVersion.parts, inp.current.parts)
    /\ (inp.op = "release" /\ inp.input.kind = "+"
          /\ inp.input.increment \in {"major", "minor", "patch"}
          /\ validateVersion(inp.current))
       => validateVersionProgression(inp.current,
                                     incrementVersion(inp.current, inp.input.increment))
    /\ (inp.op = "release" /\ out.confirmed = "no")
       => (out.packageVersion = inp.current /\ out.tags = inp.tags /\ exitCode = 0)

----------------------------------------------------------------------------
(* Claim about the installer, checked under SpecInstall *)

RECURSIVE OptionPositions(_, _)
\* the positions of a command line that are read as options, from i on
OptionPositions(args, i) ==
    IF i > Len(args) THEN {}
    ELSE {i} \cup OptionPositions(args,
                    IF args[i] \in {"--install-path", "--local-source"}
                    THEN i + 2 ELSE i + 1)

\* the command line holds an option that is not known, or --install-path or
\* --local-source without a value
BadInstallArgs(args) ==
    \E i \in OptionPositions(args, 1) :
        \/ args[i] \notin {"--install-path", "--local-source", "--help", "-h"}
        \/ /\ args[i] \in {"--install-path", "--local-source"}
           /\ (i + 1 > Len(args) \/ args[i + 1] = "")

\* C30: on a command line with an unknown option, or with --install-path or
\* --local-source without a value, the installer exits with code 1 before the
\* install location is determined: no directory is made, nothing is built or
\* downloaded, no file is written. A later step that fails ends the installer
\* with code 1, and success is reported only when the written file exists.
C30_InstallerFailsEarly ==
    inp.op = "install" =>
        /\ BadInstallArgs(inp.args) =>
              /\ pc \in {"install", "exited"}
              /\ pc = "exited" => exitCode = 1
              /\ out = installStart(out.dirExists)
        /\ out.failed # "none" => (pc = "exited" /\ exitCode = 1 /\ ~out.reported)
        /\ out.reported => (out.written /\ out.executable /\ exitCode = 0)
        /\ (pc = "exited" /\ exitCode = 0) => (out.reported \/ options.help)

\* the installer has ended with code 1 on --install-path without a value after
\* a --local-source with one
C30_Witness ==
    /\ inp.op = "install"
    /\ pc = "exited"
    /\ exitCode = 1
    /\ Len(inp.args) = 3
    /\ inp.args[1] = "--local-source"
    /\ inp.args[3] = "--install-path"
    /\ out = installStart(out.dirExists)

=============================================================================
